---- MODULE Spec2Model ----
(***************************************************************************)
(* A model of the 2-D pallet packer (pallet.py, item.py, ems.py) and of    *)
(* the batch palletizer (palletization.py, bblf.py), of the route solver   *)
(* (clarke_wright.py, routing.py), of the picker load balancer             *)
(* (assignment.py) and of the annealing optimizers                         *)
(* (sa_improvement_routing.py).                                            *)
(*                                                                         *)
(* Objects are records, Python lists are sequences.  Object identity of    *)
(* the EMS regions of one list is the position in that list: every list    *)
(* the packer builds holds each EMS object once.  The far-corner score     *)
(* np.hypot(dx, dy) is compared through its square dx^2 + dy^2, which      *)
(* orders the integer inputs exactly as the square root does.              *)
(***************************************************************************)
EXTENDS Integers, Sequences, FiniteSets, TLC

VARIABLES
    phase,                  \* which program runs: "pallet" (a Pallet driven by calls), "palletize",
                            \* "route", "merge", "assign", "anneal", "twin", "clip" or "find"
    pallet,                 \* the Pallet object the calls act on
    pre,                    \* the same Pallet as it was before the last call
    arg,                    \* the Item as it was passed to the last call
    item,                   \* the same Item object after the last call
    op,                     \* the last call: "init", "place_item", "try_place_item"
    ret,                    \* the value the last call returned
    overlap_hit,            \* some place_item returned through the overlap check (pallet.py:155-156)
    orders,                 \* palletize_orders input: order id -> list of item ids
    sorted_orders,          \* palletization.py:60, the order ids in processing order
    next_order,             \* position of the for loop of palletization.py:69 in sorted_orders
    pallets,                \* palletization.py:43
    order_pallet_mapping,   \* palletization.py:44, a function order id -> pallet id
    failed_orders,          \* palletization.py:45
    trial_accepted,         \* the orders committed to an existing pallet after a scratch trial
    pallet_orders,          \* bblf.py:52, the batching built from the mapping
    pc,                     \* "loop" while palletize_orders iterates, "returned", "bblf_done"
    cw,                     \* one call of ClarkeWrightSolver.solve and of compute_route_distance
    pa,                     \* one call of picker_assignment
    sa,                     \* one run of an annealing optimizer
    fn,                     \* one call of clip_ems_by_item or find_best_position on given arguments
    twin                    \* a second run of the optimizer of sa on the same inputs and random draws

vars == <<phase, pallet, pre, arg, item, op, ret, overlap_hit, orders, sorted_orders,
          next_order, pallets, order_pallet_mapping, failed_orders, trial_accepted,
          pallet_orders, pc, cw, pa, sa, fn, twin>>

routeVars == <<cw, pa, sa, fn, twin>>
palletVars == <<pallet, pre, arg, item, op, ret>>
palletizeVars == <<orders, sorted_orders, next_order, pallets, order_pallet_mapping,
                   failed_orders, trial_accepted, pallet_orders, pc>>

(***************************************************************************)
(* Program constants and bounds                                            *)
(***************************************************************************)
PalletLength == 120
PalletWidth == 100
MinEdge == 10
NoPos == -1

\* calls on the driven pallet stop once this many items are committed
MaxItems == 4
\* footprints <<length, width>> of the items passed to the driven pallet
ItemShapes == { <<60, 50>>, <<50, 40>>, <<115, 30>>, <<25, 95>>, <<5, 5>>,
                <<100, 120>>, <<130, 110>>, <<70, 100>> }

(***************************************************************************)
(* item.py, ems.py                                                         *)
(***************************************************************************)
Item(item_id, length, width, order_id) ==
    [item_id |-> item_id, order_id |-> order_id, length |-> length, width |-> width,
     x |-> NoPos, y |-> NoPos, rotated |-> FALSE]

rotate(it) ==
    [it EXCEPT !.length = it.width, !.width = it.length, !.rotated = ~it.rotated]

copy(it) ==
    [Item(it.item_id, it.length, it.width, it.order_id)
        EXCEPT !.x = it.x, !.y = it.y, !.rotated = it.rotated]

EMS(x, y, length, width) ==
    [x |-> x, y |-> y, length |-> length, width |-> width, area |-> length * width]

(***************************************************************************)
(* pallet.py                                                               *)
(***************************************************************************)
Pallet(pallet_id, length, width) ==
    [id |-> pallet_id, length |-> length, width |-> width, items |-> <<>>,
     ems_list |-> <<EMS(0, 0, length, width)>>,
     occupied_area |-> 0, free_area |-> length * width]

NoCandidate ==
    [found |-> FALSE, x |-> NoPos, y |-> NoPos, width |-> 0, height |-> 0,
     rotated |-> FALSE, ems |-> EMS(0, 0, 0, 0)]

\* ScanEms without the test of the item's second edge against the region
RECURSIVE ScanEmsOneEdge(_, _, _, _, _)
ScanEmsOneEdge(p, it, rotated, k, best) ==
    IF k > Len(p.ems_list) THEN best
    ELSE LET ems == p.ems_list[k]
             item_w == IF rotated THEN it.width ELSE it.length
             item_h == IF rotated THEN it.length ELSE it.width
             dx == p.length - (ems.x + item_w)
             dy == p.width - (ems.y + item_h)
             dist == dx * dx + dy * dy
         IN  ScanEmsOneEdge(p, it, rotated, k + 1,
                IF item_w <= ems.length /\ dist > best.score
                THEN [score |-> dist,
                      candidate |-> [found |-> TRUE, x |-> ems.x, y |-> ems.y,
                                     width |-> item_w, height |-> item_h,
                                     rotated |-> rotated, ems |-> ems]]
                ELSE best)

\* the inner loop of find_best_position for one orientation, from region k on;
\* best is the pair best_score / best_candidate
RECURSIVE ScanEms(_, _, _, _, _)
ScanEms(p, it, rotated, k, best) ==
    IF k > Len(p.ems_list) THEN best
    ELSE LET ems == p.ems_list[k]
             item_w == IF rotated THEN it.width ELSE it.length
             item_h == IF rotated THEN it.length ELSE it.width
             dx == p.length - (ems.x + item_w)
             dy == p.width - (ems.y + item_h)
             dist == dx * dx + dy * dy
         IN  ScanEms(p, it, rotated, k + 1,
                IF item_w <= ems.length /\ item_h <= ems.width /\ dist > best.score
                THEN [score |-> dist,
                      candidate |-> [found |-> TRUE, x |-> ems.x, y |-> ems.y,
                                     width |-> item_w, height |-> item_h,
                                     rotated |-> rotated, ems |-> ems]]
                ELSE best)

\* find_best_position that tries the rotated orientation first
find_best_position_RotatedFirst(p, it) ==
    ScanEms(p, it, FALSE, 1,
        ScanEms(p, it, TRUE, 1, [score |-> -1, candidate |-> NoCandidate])).candidate

find_best_position(p, it) ==
    ScanEms(p, it, TRUE, 1,
        ScanEms(p, it, FALSE, 1, [score |-> -1, candidate |-> NoCandidate])).candidate

check_overlap(p, it) ==
    \E k \in 1..Len(p.items) :
        LET existing == p.items[k]
        IN  ~ (\/ it.x + it.length <= existing.x
               \/ existing.x + existing.length <= it.x
               \/ it.y + it.width <= existing.y
               \/ existing.y + existing.width <= it.y)

\* clip_ems_by_item whose left-intrusion residual starts at the item's left
\* edge instead of its right edge
clip_ems_by_item_LeftEdge(ems, it) ==
    LET ex == ems.x
        ey == ems.y
        ew == ems.length
        eh == ems.width
        ix == it.x
        iy == it.y
        iw == it.length
        ih == it.width
        new_width == (ex + ew) - (ix + iw)
        new_height == (ey + eh) - (iy + ih)
        right_width == (ex + ew) - ix
        top_height == (ey + eh) - iy
        left == IF ix <= ex /\ ex < ix + iw /\ new_width >= MinEdge
                THEN << EMS(ix, ey, new_width, eh) >> ELSE << >>
        bottom == IF iy <= ey /\ ey < iy + ih /\ new_height >= MinEdge
                  THEN << EMS(ex, iy + ih, ew, new_height) >> ELSE << >>
        interior == IF ex < ix /\ ey < iy
                    THEN (IF right_width >= MinEdge
                          THEN << EMS(ix, ey, right_width, eh) >> ELSE << >>)
                         \o (IF top_height >= MinEdge
                             THEN << EMS(ex, iy, ew, top_height) >> ELSE << >>)
                    ELSE << >>
    IN  IF ix <= ex /\ iy <= ey /\ ix + iw >= ex + ew /\ iy + ih >= ey + eh
        THEN << >>
        ELSE IF ix + iw <= ex \/ ix >= ex + ew \/ iy + ih <= ey \/ iy >= ey + eh
        THEN << ems >>
        ELSE left \o bottom \o interior

clip_ems_by_item(ems, it) ==
    LET ex == ems.x
        ey == ems.y
        ew == ems.length
        eh == ems.width
        ix == it.x
        iy == it.y
        iw == it.length
        ih == it.width
        new_width == (ex + ew) - (ix + iw)
        new_height == (ey + eh) - (iy + ih)
        right_width == (ex + ew) - ix
        top_height == (ey + eh) - iy
        left == IF ix <= ex /\ ex < ix + iw /\ new_width >= MinEdge
                THEN << EMS(ix + iw, ey, new_width, eh) >> ELSE << >>
        bottom == IF iy <= ey /\ ey < iy + ih /\ new_height >= MinEdge
                  THEN << EMS(ex, iy + ih, ew, new_height) >> ELSE << >>
        interior == IF ex < ix /\ ey < iy
                    THEN (IF right_width >= MinEdge
                          THEN << EMS(ix, ey, right_width, eh) >> ELSE << >>)
                         \o (IF top_height >= MinEdge
                             THEN << EMS(ex, iy, ew, top_height) >> ELSE << >>)
                    ELSE << >>
    IN  IF ix <= ex /\ iy <= ey /\ ix + iw >= ex + ew /\ iy + ih >= ey + eh
        THEN << >>
        ELSE IF ix + iw <= ex \/ ix >= ex + ew \/ iy + ih <= ey \/ iy >= ey + eh
        THEN << ems >>
        ELSE left \o bottom \o interior

\* ems_list[k] lies within ems_list[j]
Dominated(ems_list, k, j) ==
    /\ ems_list[k].x >= ems_list[j].x
    /\ ems_list[k].y >= ems_list[j].y
    /\ ems_list[k].x + ems_list[k].length <= ems_list[j].x + ems_list[j].length
    /\ ems_list[k].y + ems_list[k].width <= ems_list[j].y + ems_list[j].width

\* PruneFrom without the dominance test
RECURSIVE PruneFromSmallOnly(_, _)
PruneFromSmallOnly(ems_list, k) ==
    IF k > Len(ems_list) THEN << >>
    ELSE (IF ~ (ems_list[k].length < MinEdge \/ ems_list[k].width < MinEdge)
          THEN << ems_list[k] >> ELSE << >>) \o PruneFromSmallOnly(ems_list, k + 1)

RECURSIVE PruneFrom(_, _)
PruneFrom(ems_list, k) ==
    IF k > Len(ems_list) THEN << >>
    ELSE LET ems == ems_list[k]
             keep == /\ ~ (ems.length < MinEdge \/ ems.width < MinEdge)
                     /\ \A j \in 1..Len(ems_list) : j = k \/ ~ Dominated(ems_list, k, j)
         IN  (IF keep THEN << ems >> ELSE << >>) \o PruneFrom(ems_list, k + 1)

prune_ems_list(ems_list) == PruneFrom(ems_list, 1)

\* ClipAll that clips only the region the item was placed in
RECURSIVE ClipAllChosenOnly(_, _, _)
ClipAllChosenOnly(ems_list, it, k) ==
    IF k > Len(ems_list) THEN << >>
    ELSE (IF ems_list[k].x = it.x /\ ems_list[k].y = it.y
          THEN clip_ems_by_item(ems_list[k], it) ELSE << ems_list[k] >>)
         \o ClipAllChosenOnly(ems_list, it, k + 1)

\* the loop of place_item that clips every region by the placed item
RECURSIVE ClipAll(_, _, _)
ClipAll(ems_list, it, k) ==
    IF k > Len(ems_list) THEN << >>
    ELSE clip_ems_by_item(ems_list[k], it) \o ClipAll(ems_list, it, k + 1)

\* commit_item that leaves free_area as it was
commit_item_FreeKept(p, moved) ==
    [p EXCEPT
        !.items = Append(@, moved),
        !.occupied_area = @ + moved.length * moved.width,
        !.ems_list = prune_ems_list(ClipAll(p.ems_list, moved, 1))]

\* pallet.py:158-168: append the item, update the counters, clip and prune
commit_item(p, moved) ==
    [p EXCEPT
        !.items = Append(@, moved),
        !.occupied_area = @ + moved.length * moved.width,
        !.free_area = @ - moved.length * moved.width,
        !.ems_list = prune_ems_list(ClipAll(p.ems_list, moved, 1))]

\* A call's outcome is a record: the returned value, the pallet and the item
\* after the call, and whether the call left through the overlap check.

\* pallet.py:154-169: place_item once the item has its position
place_moved(p, moved) ==
    IF check_overlap(p, moved)
    THEN [ok |-> FALSE, pallet |-> p, item |-> moved, overlap |-> TRUE]
    ELSE [ok |-> TRUE, pallet |-> commit_item(p, moved), item |-> moved, overlap |-> FALSE]

\* pallet.py:145-169: place_item once find_best_position has answered
place_candidate(p, it, candidate) ==
    IF ~ candidate.found
    THEN [ok |-> FALSE, pallet |-> p, item |-> it, overlap |-> FALSE]
    ELSE place_moved(p, [(IF candidate.rotated THEN rotate(it) ELSE it)
                            EXCEPT !.x = candidate.x, !.y = candidate.y])

place_item(p, it) == place_candidate(p, it, find_best_position(p, it))

\* try_second without the final rotate that restores the orientation
try_second_NoRestore(first, second) ==
    IF second.ok
    THEN [second EXCEPT !.overlap = first.overlap \/ @]
    ELSE [ok |-> FALSE, pallet |-> second.pallet, item |-> second.item,
          overlap |-> first.overlap \/ second.overlap]

\* pallet.py:204-207: the outcome of try_place_item after its second place_item
try_second(first, second) ==
    IF second.ok
    THEN [second EXCEPT !.overlap = first.overlap \/ @]
    ELSE [ok |-> FALSE, pallet |-> second.pallet, item |-> rotate(second.item),
          overlap |-> first.overlap \/ second.overlap]

\* pallet.py:201-207: the outcome of try_place_item after its first place_item
try_first(first) ==
    IF first.ok THEN first
    ELSE try_second(first, place_item(first.pallet, rotate(first.item)))

try_place_item(p, it) == try_first(place_item(p, it))

(***************************************************************************)
(* A pallet driven by an arbitrary sequence of calls                       *)
(***************************************************************************)
NoItem == Item(0, 0, 0, 0)

PalletizeIdle ==
    /\ orders = << >>
    /\ sorted_orders = << >>
    /\ next_order = 1
    /\ pallets = << >>
    /\ order_pallet_mapping = << >>
    /\ failed_orders = << >>
    /\ trial_accepted = {}
    /\ pallet_orders = << >>
    /\ pc = "idle"

RouteIdle ==
    /\ cw = [pc |-> "idle"]
    /\ pa = [pc |-> "idle"]
    /\ sa = [pc |-> "idle"]
    /\ fn = [pc |-> "idle"]
    /\ twin = [pc |-> "idle"]

InitPallet ==
    /\ phase = "pallet"
    /\ pallet = Pallet(1, PalletLength, PalletWidth)
    /\ pre = pallet
    /\ arg = NoItem
    /\ item = NoItem
    /\ op = "init"
    /\ ret = TRUE
    /\ overlap_hit = FALSE
    /\ PalletizeIdle
    /\ RouteIdle

Call(name, result, it) ==
    /\ pre' = pallet
    /\ arg' = it
    /\ op' = name
    /\ pallet' = result.pallet
    /\ item' = result.item
    /\ ret' = result.ok
    /\ overlap_hit' = (overlap_hit \/ result.overlap)
    /\ UNCHANGED <<phase, palletizeVars, routeVars>>

PlaceItem ==
    /\ phase = "pallet"
    /\ Len(pallet.items) < MaxItems
    /\ \E s \in ItemShapes, r \in BOOLEAN :
          LET fresh == Item(Len(pallet.items) + 1, s[1], s[2], 1)
              it == IF r THEN rotate(fresh) ELSE fresh
          IN  Call("place_item", place_item(pallet, it), it)

TryPlaceItem ==
    /\ phase = "pallet"
    /\ Len(pallet.items) < MaxItems
    /\ \E s \in ItemShapes, r \in BOOLEAN :
          LET fresh == Item(Len(pallet.items) + 1, s[1], s[2], 1)
              it == IF r THEN rotate(fresh) ELSE fresh
          IN  Call("try_place_item", try_place_item(pallet, it), it)

NextPallet == PlaceItem \/ TryPlaceItem

SpecPallet == InitPallet /\ [][NextPallet]_vars

(***************************************************************************)
(* palletization.py: palletize_orders, and the batching bblf.py builds     *)
(***************************************************************************)
\* the orders map holds at most this many item occurrences in all
MaxOccurrences == 4

\* items_dict: item id -> Item, as load_data builds it (x, y unset, unrotated)
ItemDims == << <<110, 40>>, <<20, 90>>, <<110, 15>>, <<130, 110>> >>
ItemIds == 1..Len(ItemDims)
items_dict == [i \in ItemIds |-> Item(i, ItemDims[i][1], ItemDims[i][2], 0)]

\* the sorted list of the members of a set of numbers
RECURSIVE SortedSeq(_)
SortedSeq(S) ==
    IF S = {} THEN << >>
    ELSE LET m == CHOOSE x \in S : \A y \in S : x <= y
         IN  << m >> \o SortedSeq(S \ {m})

\* the orders map (order id 1, 2, ... -> its item ids, every order non-empty, as
\* the groupby of load_data builds it) that lists the occurrences of flat, an
\* order ending after each position of cuts
SplitOrders(flat, cuts) ==
    LET ends == SortedSeq(cuts \cup {Len(flat)})
    IN  IF Len(flat) = 0 THEN << >>
        ELSE [o \in 1..Len(ends) |->
                SubSeq(flat, (IF o = 1 THEN 0 ELSE ends[o - 1]) + 1, ends[o])]


RECURSIVE SumSeq(_, _)
SumSeq(s, k) == IF k > Len(s) THEN 0 ELSE s[k] + SumSeq(s, k + 1)

compute_order_total_area(item_ids) ==
    SumSeq([k \in 1..Len(item_ids) |->
                items_dict[item_ids[k]].length * items_dict[item_ids[k]].width], 1)

\* sorted(..., reverse=True) and list.sort(reverse=True): the stable sort by
\* descending key; the result lists the positions of keys in sorted order
SortedDesc(keys) ==
    LET n == Len(keys)
        Before(j, i) == keys[j] > keys[i] \/ (keys[j] = keys[i] /\ j < i)
        Rank(i) == 1 + Cardinality({j \in 1..n : Before(j, i)})
    IN  [r \in 1..n |-> CHOOSE i \in 1..n : Rank(i) = r]

\* palletization.py:60-64, as the list of order ids
SortOrders(ords) ==
    SortedDesc([o \in 1..Len(ords) |-> compute_order_total_area(ords[o])])

\* palletization.py:75-85
OrderItems(order_id, item_ids) ==
    LET copies == [k \in 1..Len(item_ids) |->
                      [copy(items_dict[item_ids[k]]) EXCEPT !.order_id = order_id]]
        by_area == SortedDesc([k \in 1..Len(copies) |-> copies[k].length * copies[k].width])
    IN  [r \in 1..Len(copies) |-> copies[by_area[r]]]

\* try_place_item on its[k], its[k+1], ... until one returns False
\* (all(...) at palletization.py:113 and the loop with break at 133-147);
\* until_fail_step continues after the call on its[k] gave outcome r
RECURSIVE PlaceUntilFail(_, _, _)
RECURSIVE until_fail_step(_, _, _)
until_fail_step(its, k, r) ==
    IF r.ok
    THEN [PlaceUntilFail(r.pallet, [its EXCEPT ![k] = r.item], k + 1)
             EXCEPT !.overlap = r.overlap \/ @]
    ELSE [ok |-> FALSE, pallet |-> r.pallet, items |-> [its EXCEPT ![k] = r.item],
          failed_at |-> k, overlap |-> r.overlap]

PlaceUntilFail(p, its, k) ==
    IF k > Len(its)
    THEN [ok |-> TRUE, pallet |-> p, items |-> its, failed_at |-> 0, overlap |-> FALSE]
    ELSE until_fail_step(its, k, try_place_item(p, its[k]))

\* try_place_item on every item, return values ignored (palletization.py:118-119);
\* place_all_step continues after the call on its[k] gave outcome r
RECURSIVE PlaceAll(_, _, _)
RECURSIVE place_all_step(_, _, _)
place_all_step(its, k, r) ==
    [PlaceAll(r.pallet, [its EXCEPT ![k] = r.item], k + 1) EXCEPT !.overlap = r.overlap \/ @]

PlaceAll(p, its, k) ==
    IF k > Len(its)
    THEN [pallet |-> p, items |-> its, overlap |-> FALSE]
    ELSE place_all_step(its, k, try_place_item(p, its[k]))

\* TempPallet that keeps the fresh pallet's single region instead of the copies
TempPalletFresh(p) == Pallet(p.id, p.length, p.width)

\* palletization.py:110-111
TempPallet(p) ==
    [Pallet(p.id, p.length, p.width) EXCEPT
        !.ems_list = [k \in 1..Len(p.ems_list) |->
                         EMS(p.ems_list[k].x, p.ems_list[k].y,
                             p.ems_list[k].length, p.ems_list[k].width)]]

\* palletization.py:113 on the scratch pallet of pallets[k]
Trial(ps, k, order_items) ==
    PlaceUntilFail(TempPallet(ps[k]), [j \in 1..Len(order_items) |-> copy(order_items[j])], 1)

\* palletization.py:128
NewPallet(ps) == Pallet(Len(ps) + 1, PalletLength, PalletWidth)

\* MapOrder with key and value exchanged
MapOrderSwapped(mapping, order_id, pallet_id) == (pallet_id :> order_id) @@ mapping

\* palletization.py:120 and 156: order_pallet_mapping[order_id] = pallet id
MapOrder(mapping, order_id, pallet_id) == (order_id :> pallet_id) @@ mapping

\* RetainPallet that appends the new pallet whether or not the order fitted
RetainPalletAlways(ps, new_pallet, all_fit) == Append(ps, new_pallet)

\* palletization.py:154-155: the new pallet joins the list only if all items fitted
RetainPallet(ps, new_pallet, all_fit) == IF all_fit THEN Append(ps, new_pallet) ELSE ps

\* palletization.py:140-144; the reason text is kept as the pair length, width
FailOrder(failed, order_id, it) ==
    Append(failed, [order_id |-> order_id, failed_item |-> it.item_id,
                    reason |-> << it.length, it.width >>])

InitPalletize ==
    /\ phase = "palletize"
    /\ pallet = Pallet(1, PalletLength, PalletWidth)
    /\ pre = pallet
    /\ arg = NoItem
    /\ item = NoItem
    /\ op = "init"
    /\ ret = TRUE
    /\ overlap_hit = FALSE
    /\ \E t \in 0..MaxOccurrences :
          \E flat \in [1..t -> ItemIds], cuts \in SUBSET (1..(t - 1)) :
              orders = SplitOrders(flat, cuts)
    /\ sorted_orders = SortOrders(orders)
    /\ next_order = 1
    /\ pallets = << >>
    /\ order_pallet_mapping = << >>
    /\ failed_orders = << >>
    /\ trial_accepted = {}
    /\ pallet_orders = << >>
    /\ pc = "loop"
    /\ RouteIdle

\* palletization.py:115-122: the order goes to pallet k of the list ps; done is
\* the outcome of the commit loop
CommitExisting(ps, order_id, k, done, trial_overlap) ==
    /\ pallets' = [ps EXCEPT ![k] = done.pallet]
    /\ order_pallet_mapping' = MapOrder(order_pallet_mapping, order_id, ps[k].id)
    /\ failed_orders' = failed_orders
    /\ trial_accepted' = trial_accepted \cup {order_id}
    /\ overlap_hit' = (overlap_hit \/ trial_overlap \/ done.overlap)

\* palletization.py:127-158: no pallet of the list ps took the order; done is
\* the outcome of the placement loop on new_pallet
OpenNew(ps, order_id, new_pallet, done, trial_overlap) ==
    /\ pallets' = RetainPallet(ps, done.pallet, done.ok)
    /\ order_pallet_mapping' =
          (IF done.ok THEN MapOrder(order_pallet_mapping, order_id, new_pallet.id)
           ELSE order_pallet_mapping)
    /\ failed_orders' =
          (IF done.ok THEN failed_orders
           ELSE FailOrder(failed_orders, order_id, done.items[done.failed_at]))
    /\ trial_accepted' = trial_accepted
    /\ overlap_hit' = (overlap_hit \/ trial_overlap \/ done.overlap)

\* TrialObjects whose trial places the items of the order themselves on the
\* pallet itself
TrialObjectsShared(ps, k, order_items) ==
    [all_fit |-> PlaceUntilFail(ps[k], order_items, 1).ok,
     pallet |-> PlaceUntilFail(ps[k], order_items, 1).pallet,
     order_items |-> PlaceUntilFail(ps[k], order_items, 1).items,
     overlap |-> PlaceUntilFail(ps[k], order_items, 1).overlap]

\* palletization.py:110-113: the trial of the order on pallet k places copies
\* of the items on temp_pallet; pallet and order_items are the pallet and the
\* items of the order as the trial leaves them
TrialObjects(ps, k, order_items) ==
    [all_fit |-> Trial(ps, k, order_items).ok,
     pallet |-> ps[k],
     order_items |-> order_items,
     overlap |-> Trial(ps, k, order_items).overlap]

\* TrialLoop that takes the last pallet whose trial succeeds
RECURSIVE TrialLoopLast(_, _, _)
TrialLoopLast(ps, order_items, k) ==
    IF k > Len(ps)
    THEN [k |-> 0, pallets |-> ps, order_items |-> order_items, overlap |-> FALSE]
    ELSE IF TrialLoopLast(ps, order_items, k + 1).k # 0
         THEN TrialLoopLast(ps, order_items, k + 1)
         ELSE IF Trial(ps, k, order_items).ok
              THEN [k |-> k, pallets |-> ps, order_items |-> order_items,
                    overlap |-> Trial(ps, k, order_items).overlap]
              ELSE TrialLoopLast(ps, order_items, k + 1)

\* palletization.py:104-122: the loop over the existing pallets from pallet k
\* on; it stops at the first pallet whose trial places every item (k is 0 if
\* there is none); trial_step continues after the trial on pallet k left the
\* objects t
RECURSIVE TrialLoop(_, _, _)
RECURSIVE trial_step(_, _, _)
trial_step(ps, k, t) ==
    IF t.all_fit
    THEN [k |-> k, pallets |-> [ps EXCEPT ![k] = t.pallet],
          order_items |-> t.order_items, overlap |-> t.overlap]
    ELSE [TrialLoop([ps EXCEPT ![k] = t.pallet], t.order_items, k + 1)
             EXCEPT !.overlap = t.overlap \/ @]

TrialLoop(ps, order_items, k) ==
    IF k > Len(ps)
    THEN [k |-> 0, pallets |-> ps, order_items |-> order_items, overlap |-> FALSE]
    ELSE trial_step(ps, k, TrialObjects(ps, k, order_items))

\* palletization.py:115-158 after the loop over the existing pallets
PlaceOrder(order_id, loop) ==
    IF loop.k # 0
    THEN CommitExisting(loop.pallets, order_id, loop.k,
            PlaceAll(loop.pallets[loop.k], loop.order_items, 1), loop.overlap)
    ELSE OpenNew(loop.pallets, order_id, NewPallet(loop.pallets),
            PlaceUntilFail(NewPallet(loop.pallets), loop.order_items, 1), loop.overlap)

\* one iteration of the for loop at palletization.py:69
ProcessOrder ==
    /\ phase = "palletize"
    /\ pc = "loop"
    /\ next_order <= Len(sorted_orders)
    /\ \E loop \in {TrialLoop(pallets,
                              OrderItems(sorted_orders[next_order],
                                         orders[sorted_orders[next_order]]), 1)} :
          PlaceOrder(sorted_orders[next_order], loop)
    /\ next_order' = next_order + 1
    /\ UNCHANGED <<routeVars, phase, palletVars, orders, sorted_orders, pallet_orders, pc>>

\* palletization.py:178
Return ==
    /\ phase = "palletize"
    /\ pc = "loop"
    /\ next_order > Len(sorted_orders)
    /\ pc' = "returned"
    /\ UNCHANGED <<routeVars, phase, palletVars, overlap_hit, orders, sorted_orders, next_order,
                   pallets, order_pallet_mapping, failed_orders, trial_accepted,
                   pallet_orders>>

\* pallet_orders[pallet_id - 1] on a list of n lists: the position the Python
\* index denotes (1-based; a negative index counts from the end), 0 if none
ListIndex(pallet_id, n) ==
    LET i == pallet_id - 1
    IN  IF 0 <= i /\ i < n THEN i + 1
        ELSE IF -n <= i /\ i < 0 THEN i + n + 1
        ELSE 0

\* bblf.py:51-58: one list per pallet, each mapped order appended to the list
\* of its pallet id, every list sorted
BuildPalletOrders(mapping, n) ==
    [p \in 1..n |-> SortedSeq({o \in DOMAIN mapping : ListIndex(mapping[o], n) = p})]

\* bblf.py:50-58
Bblf ==
    /\ phase = "palletize"
    /\ pc = "returned"
    /\ IF \A o \in DOMAIN order_pallet_mapping :
              ListIndex(order_pallet_mapping[o], Len(pallets)) # 0
       THEN /\ pallet_orders' = BuildPalletOrders(order_pallet_mapping, Len(pallets))
            /\ pc' = "bblf_done"
       ELSE /\ pallet_orders' = pallet_orders
            /\ pc' = "bblf_error"
    /\ UNCHANGED <<routeVars, phase, palletVars, overlap_hit, orders, sorted_orders, next_order,
                   pallets, order_pallet_mapping, failed_orders, trial_accepted>>

NextPalletize == ProcessOrder \/ Return \/ Bblf

SpecPalletize == InitPalletize /\ [][NextPalletize]_vars

(***************************************************************************)
(* clarke_wright.py, routing.py                                            *)
(*                                                                         *)
(* Distances are whole numbers.  An occurrence's temporary id              *)
(* f"{item}_{i}" is its position i in the input list, a route is a list    *)
(* of positions, and the dict of savings is the list of its values in      *)
(* insertion order, the keys being Pairs(n).                               *)
(***************************************************************************)
\* the sentinel 'Depot' of a route; item ids are 1, 2, ...
Depot == 0

\* solve is called on lists of at most this many item occurrences
MaxRouteItems == 4

\* depot_dist: item id -> distance between the depot and the item
depot_dist == << 2, 4, 5, 7 >>
\* item_item_dist.loc[i, j]
item_item_dist == << << 0, 3, 5, 5 >>,
                     << 3, 0, 3, 3 >>,
                     << 5, 3, 0, 4 >>,
                     << 5, 3, 4, 0 >> >>

\* the keys (i, j) of the savings dict in insertion order (clarke_wright.py:15-16)
Pairs(n) ==
    LET S == {p \in (1..n) \X (1..n) : p[1] < p[2]}
        Rank(p) == 1 + Cardinality({q \in S : q[1] < p[1] \/ (q[1] = p[1] /\ q[2] < p[2])})
    IN  [r \in 1..Cardinality(S) |-> CHOOSE p \in S : Rank(p) = r]

calculate_savings(items) ==
    [r \in 1..Len(Pairs(Len(items))) |->
        depot_dist[items[Pairs(Len(items))[r][1]]]
        + depot_dist[items[Pairs(Len(items))[r][2]]]
        - item_item_dist[items[Pairs(Len(items))[r][1]]][items[Pairs(Len(items))[r][2]]]]

\* next(r for r in routes if tid in r): the position of the first route that holds tid
RouteOf(routes, tid) ==
    CHOOSE r \in 1..Len(routes) :
        /\ \E k \in 1..Len(routes[r]) : routes[r][k] = tid
        /\ \A q \in 1..(r - 1) : \A k \in 1..Len(routes[q]) : routes[q][k] # tid

\* the list without the elements at the positions of drop
Without(s, drop) ==
    LET keep == SortedSeq((1..Len(s)) \ drop)
    IN  [k \in 1..Len(keep) |-> s[keep[k]]]

\* Merged that leaves route_j in the list
MergedKeepSecond(routes, ri, rj, new_route) ==
    Append(Without(routes, {ri}), new_route)

\* clarke_wright.py:63-65
Merged(routes, ri, rj, new_route) ==
    Append(Without(routes, {ri, rj}), new_route)

\* MergePair that joins route_i before route_j in both cases
MergePairFirstFirst(routes, i, j, ri, rj) ==
    IF ri = rj THEN routes
    ELSE IF routes[ri][Len(routes[ri])] = i /\ routes[rj][1] = j
         THEN Merged(routes, ri, rj, routes[ri] \o routes[rj])
    ELSE IF routes[rj][Len(routes[rj])] = j /\ routes[ri][1] = i
         THEN Merged(routes, ri, rj, routes[ri] \o routes[rj])
    ELSE routes

\* MergePair without the case of j at the end of its route and i at the start
MergePairTailHeadOnly(routes, i, j, ri, rj) ==
    IF ri = rj THEN routes
    ELSE IF routes[ri][Len(routes[ri])] = i /\ routes[rj][1] = j
         THEN Merged(routes, ri, rj, routes[ri] \o routes[rj])
    ELSE routes

\* clarke_wright.py:53-65 for the pair (i, j) whose routes are at ri and rj
MergePair(routes, i, j, ri, rj) ==
    IF ri = rj THEN routes
    ELSE IF routes[ri][Len(routes[ri])] = i /\ routes[rj][1] = j
         THEN Merged(routes, ri, rj, routes[ri] \o routes[rj])
    ELSE IF routes[rj][Len(routes[rj])] = j /\ routes[ri][1] = i
         THEN Merged(routes, ri, rj, routes[rj] \o routes[ri])
    ELSE routes

\* the loop of clarke_wright.py:49-65 from the k-th pair of sorted_savings on
RECURSIVE MergeLoop(_, _, _)
MergeLoop(routes, sorted_savings, k) ==
    IF k > Len(sorted_savings) THEN routes
    ELSE MergeLoop(MergePair(routes, sorted_savings[k][1], sorted_savings[k][2],
                             RouteOf(routes, sorted_savings[k][1]),
                             RouteOf(routes, sorted_savings[k][2])),
                   sorted_savings, k + 1)

\* the concatenation of the lists of a list
RECURSIVE Flatten(_, _)
Flatten(lists, k) == IF k > Len(lists) THEN << >> ELSE lists[k] \o Flatten(lists, k + 1)

\* clarke_wright.py:67-74
FinalRoute(items, tids) ==
    << Depot >> \o [k \in 1..Len(tids) |-> items[tids[k]]] \o << Depot >>

\* clarke_wright.py:46: the keys of savings sorted by descending saving
SortedSavings(n, order) == [r \in 1..Len(order) |-> Pairs(n)[order[r]]]

solve(items_to_route) ==
    IF Len(items_to_route) = 0 THEN << Depot, Depot >>
    ELSE FinalRoute(items_to_route,
            Flatten(MergeLoop([i \in 1..Len(items_to_route) |-> << i >>],
                              SortedSavings(Len(items_to_route),
                                            SortedDesc(calculate_savings(items_to_route))),
                              1),
                    1))

\* routing.py:32-44 on the route without its depot nodes
SeqDistance(item_seq) ==
    depot_dist[item_seq[1]]
    + SumSeq([i \in 1..(Len(item_seq) - 1) |-> item_item_dist[item_seq[i]][item_seq[i + 1]]], 1)
    + depot_dist[item_seq[Len(item_seq)]]

IsItem(node) == node # Depot

compute_route_distance(route) ==
    IF Len(SelectSeq(route, IsItem)) = 0 THEN 0
    ELSE SeqDistance(SelectSeq(route, IsItem))

PalletIdle ==
    /\ pallet = Pallet(1, PalletLength, PalletWidth)
    /\ pre = pallet
    /\ arg = NoItem
    /\ item = NoItem
    /\ op = "init"
    /\ ret = TRUE
    /\ overlap_hit = FALSE

\* a solver and a list of item occurrences to route
InitRoute ==
    /\ phase = "route"
    /\ PalletIdle
    /\ PalletizeIdle
    /\ \E n \in 0..MaxRouteItems : \E items \in [1..n -> ItemIds] :
          cw = [pc |-> "start", items |-> items, route |-> << >>, distance |-> 0]
    /\ pa = [pc |-> "idle"]
    /\ sa = [pc |-> "idle"]
    /\ fn = [pc |-> "idle"]
    /\ twin = [pc |-> "idle"]

\* route = solver.solve(items) (routing.py:97)
Solve ==
    /\ phase = "route"
    /\ cw.pc = "start"
    /\ cw' = [cw EXCEPT !.pc = "solved", !.route = solve(cw.items)]
    /\ UNCHANGED <<phase, palletVars, overlap_hit, palletizeVars, pa, sa, fn, twin>>

\* distance = compute_route_distance(route, ...) (routing.py:100-104)
ComputeRouteDistance ==
    /\ phase = "route"
    /\ cw.pc = "solved"
    /\ cw' = [cw EXCEPT !.pc = "measured", !.distance = compute_route_distance(cw.route)]
    /\ UNCHANGED <<phase, palletVars, overlap_hit, palletizeVars, pa, sa, fn, twin>>

NextRoute == Solve \/ ComputeRouteDistance

SpecRoute == InitRoute /\ [][NextRoute]_vars

(***************************************************************************)
(* assignment.py                                                           *)
(***************************************************************************)
\* picker_assignment is called on at most this many pallet distances
MaxPalletCount == 3
\* and with num_pickers up to this number
MaxPickers == 3
\* the distances of the pallets passed to picker_assignment
DistanceValues == {0, 3, 4, 10}

\* min(range(num_pickers), key=lambda i: picker_loads[i]): the first picker
\* of minimal load
MinPicker(picker_loads) ==
    CHOOSE i \in 1..Len(picker_loads) :
        /\ \A j \in 1..Len(picker_loads) : picker_loads[i] <= picker_loads[j]
        /\ \A j \in 1..(i - 1) : picker_loads[j] > picker_loads[i]

\* max(picker_loads)
MaxOf(picker_loads) ==
    picker_loads[CHOOSE i \in 1..Len(picker_loads) :
                    \A j \in 1..Len(picker_loads) : picker_loads[j] <= picker_loads[i]]

\* AssignTo that adds the distance to the load of the first picker
AssignToLoadFirst(st, pallet_id, dist, min_picker_idx) ==
    [picker_assignments |-> [st.picker_assignments EXCEPT ![min_picker_idx] = Append(@, pallet_id)],
     picker_loads |-> [st.picker_loads EXCEPT ![1] = @ + dist]]

\* assignment.py:66-67
AssignTo(st, pallet_id, dist, min_picker_idx) ==
    [picker_assignments |-> [st.picker_assignments EXCEPT ![min_picker_idx] = Append(@, pallet_id)],
     picker_loads |-> [st.picker_loads EXCEPT ![min_picker_idx] = @ + dist]]

\* the loop of assignment.py:63-67 from the k-th pallet of pallets_with_dist on;
\* sorted_ids lists the pallet ids in that order
RECURSIVE AssignLoop(_, _, _, _)
AssignLoop(st, pallet_distances, sorted_ids, k) ==
    IF k > Len(sorted_ids) THEN st
    ELSE AssignLoop(AssignTo(st, sorted_ids[k], pallet_distances[sorted_ids[k]],
                             MinPicker(st.picker_loads)),
                    pallet_distances, sorted_ids, k + 1)

\* assignment.py:69-71
Assignment(st) ==
    [outcome |-> "returned", picker_assignments |-> st.picker_assignments,
     makespan |-> MaxOf(st.picker_loads), picker_loads |-> st.picker_loads]

\* range(num_pickers) as the positions of a list
PickerRange(num_pickers) == 1..(IF num_pickers > 0 THEN num_pickers ELSE 0)

\* the call either returns the triple or ends in the ValueError that min
\* raises on the empty range(num_pickers) at assignment.py:64
picker_assignment(pallet_distances, num_pickers) ==
    IF Len(pallet_distances) = 0
    THEN [outcome |-> "returned",
          picker_assignments |-> [i \in PickerRange(num_pickers) |-> << >>],
          makespan |-> 0,
          picker_loads |-> [i \in PickerRange(num_pickers) |-> 0]]
    ELSE IF num_pickers <= 0
    THEN [outcome |-> "ValueError", picker_assignments |-> << >>, makespan |-> 0,
          picker_loads |-> << >>]
    ELSE Assignment(AssignLoop([picker_assignments |-> [i \in PickerRange(num_pickers) |-> << >>],
                                picker_loads |-> [i \in PickerRange(num_pickers) |-> 0]],
                               pallet_distances, SortedDesc(pallet_distances), 1))

\* the arguments of one call
InitAssign ==
    /\ phase = "assign"
    /\ PalletIdle
    /\ PalletizeIdle
    /\ cw = [pc |-> "idle"]
    /\ \E n \in 0..MaxPalletCount :
          \E pallet_distances \in [1..n -> DistanceValues], num_pickers \in (-1)..MaxPickers :
              pa = [pc |-> "start", pallet_distances |-> pallet_distances,
                    num_pickers |-> num_pickers, result |-> << >>]
    /\ sa = [pc |-> "idle"]
    /\ fn = [pc |-> "idle"]
    /\ twin = [pc |-> "idle"]

\* picker_assignment(pallet_routes, pallet_distances, num_pickers)
PickerAssignment ==
    /\ phase = "assign"
    /\ pa.pc = "start"
    /\ pa' = [pa EXCEPT !.pc = "done",
                        !.result = picker_assignment(pa.pallet_distances, pa.num_pickers)]
    /\ UNCHANGED <<phase, palletVars, overlap_hit, palletizeVars, cw, sa, fn, twin>>

NextAssign == PickerAssignment

SpecAssign == InitAssign /\ [][NextAssign]_vars

(***************************************************************************)
(* sa_improvement_routing.py: the two annealing optimizers                 *)
(*                                                                         *)
(* A solution is the record of orders (the batching), routes, distances,   *)
(* picker assignments and loads (both empty under the routing objective)   *)
(* and value, the scalar current_total / current_makespan.  Distances are  *)
(* whole multiples of the tolerance 1e-12 of the best-seen test.  The      *)
(* temperature T0 * alpha^c is held as the number c of coolings; it is     *)
(* above 1e-12 while c < cold_from.  Each wall-clock test may find the     *)
(* limit reached or not.                                                   *)
(***************************************************************************)
\* the tolerance 1e-12 of the best-seen test, in distance units
Tolerance == 1
\* the plateau multipliers K of the runs
PlateauMultipliers == {-1, 0, 1}
\* the numbers of coolings after which the temperature of a run is 1e-12 or less
ColdFrom == {0, 1, 2}
\* the item lists of the orders of a run and the numbers of orders
SaOrderLists == { << 1 >>, << 2 >>, << 3 >>, << 1, 1 >> }
SaOrderCounts == 0..3
\* the numbers of pickers of a run under the makespan objective
SaPickers == {2}

\* the items of the orders of one pallet (routing.py:92-94)
BatchItems(order_ids) ==
    Flatten([k \in 1..Len(order_ids) |-> orders[order_ids[k]]], 1)

\* palletization.try_repack_single_batch: every item of the orders placed on
\* a fresh pallet, largest first
try_repack_single_batch(order_ids) ==
    PlaceUntilFail(Pallet(1, PalletLength, PalletWidth),
                   OrderItems(0, BatchItems(order_ids)), 1).ok

\* routing.py:86-109: the routes of the pallets p, p + 1, ... and their distances
RECURSIVE pallet_routes(_, _)
pallet_routes(pallet_order_lists, p) ==
    IF p > Len(pallet_order_lists) THEN << >>
    ELSE << solve(BatchItems(pallet_order_lists[p])) >>
         \o pallet_routes(pallet_order_lists, p + 1)

RECURSIVE route_distances(_, _)
route_distances(routes, p) ==
    IF p > Len(routes) THEN << >>
    ELSE << compute_route_distance(routes[p]) >> \o route_distances(routes, p + 1)

\* the solution of the makespan optimizer for a result of picker_assignment
MakespanSolution(batching, routes, distances, assigned) ==
    [orders |-> batching, routes |-> routes, distances |-> distances,
     assignments |-> assigned.picker_assignments, loads |-> assigned.picker_loads,
     value |-> assigned.makespan]

\* the solution of the routing optimizer, value being sum(current_distances)
RoutingSolution(batching, routes, distances) ==
    [orders |-> batching, routes |-> routes, distances |-> distances,
     assignments |-> << >>, loads |-> << >>, value |-> SumSeq(distances, 1)]

Solution(objective, num_pickers, batching, routes, distances) ==
    IF objective = "makespan"
    THEN MakespanSolution(batching, routes, distances,
                          picker_assignment(distances, num_pickers))
    ELSE RoutingSolution(batching, routes, distances)

\* list.remove(v): the list without the first element equal to v
Remove(s, v) ==
    Without(s, {CHOOSE i \in 1..Len(s) : s[i] = v /\ \A j \in 1..(i - 1) : s[j] # v})

NonEmptyBatches(batching) == {b \in 1..Len(batching) : Len(batching[b]) > 0}

\* swap_two_orders_between_batches that leaves o2 on pallet b2
SwapKeepSecond(batching, b1, b2, o1, o2) ==
    [batching EXCEPT ![b1] = Append(Remove(@, o1), o2), ![b2] = Append(@, o1)]

\* sa_improvement_routing.py:37-41 for the sampled pallets b1, b2 and orders o1, o2
swap_two_orders_between_batches(batching, b1, b2, o1, o2) ==
    [batching EXCEPT ![b1] = Append(Remove(@, o1), o2), ![b2] = Append(Remove(@, o2), o1)]

\* sa_improvement_routing.py:201-222 (504-521): the routes of b1 and b2 recomputed
NewRoutes(routes, new_orders, b1, b2) ==
    [routes EXCEPT ![b1] = solve(BatchItems(new_orders[b1])),
                   ![b2] = solve(BatchItems(new_orders[b2]))]

\* NewDistances that keeps the old distance of b2
NewDistancesFirstOnly(distances, new_routes, b1, b2) ==
    [distances EXCEPT ![b1] = compute_route_distance(new_routes[b1])]

NewDistances(distances, new_routes, b1, b2) ==
    [distances EXCEPT ![b1] = compute_route_distance(new_routes[b1]),
                      ![b2] = compute_route_distance(new_routes[b2])]

\* sa_improvement_routing.py:204-225, 529
Delta(objective, current, new, b1, b2) ==
    IF objective = "makespan" THEN new.value - current.value
    ELSE (new.distances[b1] + new.distances[b2])
         - (current.distances[b1] + current.distances[b2])

\* sa_improvement_routing.py:231-237: the values accepted can take; for
\* delta = 0 the probability is exp(0) = 1, above every draw of random.random()
Accepted(delta, warm) ==
    IF delta < 0 THEN {TRUE}
    ELSE IF ~warm THEN {FALSE}
    ELSE IF delta = 0 THEN {TRUE}
    ELSE BOOLEAN

\* Improves without the comparison
ImprovesAlways(current, best) == TRUE

\* sa_improvement_routing.py:266, 555
Improves(current, best) == current.value < best.value - Tolerance

\* Commit that replaces the current solution whatever the acceptance test said
CommitAlways(current, new, accepted) == new

\* sa_improvement_routing.py:248-251, 547-553
Commit(current, new, accepted) == IF accepted THEN new ELSE current

\* the returned solution taken from the current one
ReturnedCurrent(run) == run.current

\* sa_improvement_routing.py:185, 306, 480-489, 592-601
Returned(run) == run.best

\* the stats dict of a return
Stats(run, reason) ==
    [iterations_used |-> run.move_counter, temp_final |-> run.T,
     plateau_len |-> run.plateau_len, levels_completed |-> run.level,
     stopped_reason |-> reason]

\* PlateauStops that ignores the improvements of the plateau
PlateauStopsAlways(improved_in_plateau) == TRUE

\* PlateauStops that lets every plateau be followed by another
PlateauStopsNever(improved_in_plateau) == FALSE

\* sa_improvement_routing.py:273, 564
PlateauStops(improved_in_plateau) == ~improved_in_plateau

\* the batchings of the orders 1..m on n pallets, every list sorted and
\* non-empty as bblf builds them, every pallet repackable
Batchings(m) ==
    { batching \in UNION { [1..n -> SUBSET (1..m)] : n \in 0..m } :
         /\ \A p \in DOMAIN batching : batching[p] # {}
         /\ \A p, q \in DOMAIN batching : p # q => batching[p] \cap batching[q] = {}
         /\ UNION { batching[p] : p \in DOMAIN batching } = 1..m }

\* the lists of the pallets p, p + 1, ... of a batching given as sets
RECURSIVE SortedBatches(_, _)
SortedBatches(sets, p) ==
    IF p > Len(sets) THEN << >>
    ELSE << SortedSeq(sets[p]) >> \o SortedBatches(sets, p + 1)


\* the arguments of a run and its state at the first test of the while loop
AnnealStart ==
    /\ PalletIdle
    /\ \E m \in SaOrderCounts : orders \in [1..m -> SaOrderLists]
    /\ sorted_orders = << >>
    /\ next_order = 1
    /\ pallets = << >>
    /\ order_pallet_mapping = << >>
    /\ failed_orders = << >>
    /\ trial_accepted = {}
    /\ pallet_orders = << >>
    /\ pc = "idle"
    /\ cw = [pc |-> "idle"]
    /\ pa = [pc |-> "idle"]
    /\ fn = [pc |-> "idle"]
    /\ \E sets \in Batchings(Len(orders)), K \in PlateauMultipliers,
          objective \in {"routing", "makespan"}, num_pickers \in SaPickers \cup {0},
          cold_from \in ColdFrom :
          /\ objective = "routing" <=> num_pickers = 0
          /\ \A p \in DOMAIN sets : try_repack_single_batch(SortedSeq(sets[p]))
          /\ \E routes \in {pallet_routes(SortedBatches(sets, 1), 1)} :
             \E distances \in {route_distances(routes, 1)} :
             \E start \in {Solution(objective, num_pickers, SortedBatches(sets, 1),
                                    routes, distances)} :
                sa = [pc |-> "level", objective |-> objective, K |-> K,
                      num_pickers |-> num_pickers, cold_from |-> cold_from,
                      n |-> Len(start.orders), plateau_len |-> K * Len(start.orders),
                      initial |-> start, current |-> start, best |-> start,
                      T |-> 0, move_counter |-> 0, level |-> 0, k |-> 0,
                      improved_in_plateau |-> FALSE, stopped_reason |-> "unknown",
                      last |-> "none", lowest |-> start.value,
                      level_best |-> start.value,
                      returned |-> << >>, stats |-> << >>]

InitAnneal ==
    /\ phase = "anneal"
    /\ twin = [pc |-> "idle"]
    /\ AnnealStart

AnnealFrame == UNCHANGED <<phase, palletVars, overlap_hit, palletizeVars, cw, pa, fn, twin>>

\* a return of the optimizer with the given stop reason
Stop(reason) ==
    /\ sa' = [sa EXCEPT !.pc = "returned", !.stopped_reason = reason,
                        !.returned = Returned(sa), !.stats = Stats(sa, reason)]
    /\ AnnealFrame

\* sa_improvement_routing.py:155-160, 454-459: the limit is reached before a level
LevelTimeLimit ==
    /\ phase = "anneal"
    /\ sa.pc = "level"
    /\ Stop("time_limit")

\* sa_improvement_routing.py:162-165, 461-464; level_best is the best value
\* at the start of the plateau
StartLevel ==
    /\ phase = "anneal"
    /\ sa.pc = "level"
    /\ sa' = [sa EXCEPT !.pc = "plateau", !.level = @ + 1, !.k = 1,
                        !.improved_in_plateau = FALSE, !.last = "none",
                        !.level_best = sa.best.value]
    /\ AnnealFrame

\* sa_improvement_routing.py:166-185, 465-489: the limit is reached inside a plateau
PlateauTimeLimit ==
    /\ phase = "anneal"
    /\ sa.pc = "plateau"
    /\ sa.k <= sa.plateau_len
    /\ Stop("time_limit")

\* the end of an iteration that changes no solution
Continue(kind) ==
    /\ sa' = [sa EXCEPT !.k = @ + 1, !.move_counter = @ + 1, !.last = kind]
    /\ AnnealFrame

\* sa_improvement_routing.py:187-191, 491-495
Skip ==
    /\ phase = "anneal"
    /\ sa.pc = "plateau"
    /\ sa.k <= sa.plateau_len
    /\ Cardinality(NonEmptyBatches(sa.current.orders)) < 2
    /\ Continue("skipped")

\* the neighbours random.sample and random.choice can draw
Draws ==
    { d \in [b1 : NonEmptyBatches(sa.current.orders), b2 : NonEmptyBatches(sa.current.orders),
             o1 : DOMAIN orders, o2 : DOMAIN orders] :
         /\ d.b1 # d.b2
         /\ \E i \in 1..Len(sa.current.orders[d.b1]) : sa.current.orders[d.b1][i] = d.o1
         /\ \E i \in 1..Len(sa.current.orders[d.b2]) : sa.current.orders[d.b2][i] = d.o2 }

Neighbor(d) == swap_two_orders_between_batches(sa.current.orders, d.b1, d.b2, d.o1, d.o2)

Feasible(new_orders, d) ==
    /\ try_repack_single_batch(new_orders[d.b1])
    /\ try_repack_single_batch(new_orders[d.b2])

\* sa_improvement_routing.py:193-199, 497-502
Infeasible ==
    /\ phase = "anneal"
    /\ sa.pc = "plateau"
    /\ sa.k <= sa.plateau_len
    /\ \E d \in Draws : \E new_orders \in {Neighbor(d)} :
          /\ ~ Feasible(new_orders, d)
          /\ Continue("infeasible")

\* sa_improvement_routing.py:248-271, 547-562 for the candidate new; lowest is
\* the least value of the solutions that have been current
Decide(new, accepted) ==
    /\ sa' = [sa EXCEPT
                !.k = @ + 1, !.move_counter = @ + 1,
                !.last = IF accepted THEN "accepted" ELSE "rejected",
                !.current = Commit(@, new, accepted),
                !.lowest = IF accepted /\ new.value < @ THEN new.value ELSE @,
                !.best = IF accepted /\ Improves(new, @) THEN new ELSE @,
                !.improved_in_plateau = @ \/ (accepted /\ Improves(new, sa.best))]
    /\ AnnealFrame

\* sa_improvement_routing.py:187-271, 491-562: an iteration whose move passes
\* the feasibility check
Evaluate ==
    /\ phase = "anneal"
    /\ sa.pc = "plateau"
    /\ sa.k <= sa.plateau_len
    /\ \E d \in Draws : \E new_orders \in {Neighbor(d)} :
          /\ Feasible(new_orders, d)
          /\ \E new_routes \in {NewRoutes(sa.current.routes, new_orders, d.b1, d.b2)} :
             \E new_distances \in {NewDistances(sa.current.distances, new_routes, d.b1, d.b2)} :
             \E new \in {Solution(sa.objective, sa.num_pickers, new_orders,
                                  new_routes, new_distances)} :
             \E accepted \in Accepted(Delta(sa.objective, sa.current, new, d.b1, d.b2),
                                      sa.T < sa.cold_from) :
                Decide(new, accepted)

\* sa_improvement_routing.py:273-279, 564-570
EndPlateau ==
    /\ phase = "anneal"
    /\ sa.pc = "plateau"
    /\ sa.k > sa.plateau_len
    /\ IF PlateauStops(sa.improved_in_plateau)
       THEN Stop("no_improvement_in_plateau")
       ELSE /\ sa' = [sa EXCEPT !.pc = "level", !.T = @ + 1]
            /\ AnnealFrame

NextAnneal ==
    \/ LevelTimeLimit \/ StartLevel \/ PlateauTimeLimit
    \/ Skip \/ Infeasible \/ Evaluate \/ EndPlateau

SpecAnneal == InitAnneal /\ [][NextAnneal]_vars

\* a run whose wall-clock limit is never reached: the tests of lines 155 and
\* 167 never succeed
NextUnlimited == StartLevel \/ Skip \/ Infeasible \/ Evaluate \/ EndPlateau

InitAnnealUnlimited == InitAnneal

\* an iteration of the plateau is due, and a step that is one: Skip, Infeasible
\* and Evaluate are the steps that advance k inside a plateau, and one of them
\* is enabled whenever k <= plateau_len
IterationPending == phase = "anneal" /\ sa.pc = "plateau" /\ sa.k <= sa.plateau_len
IterationDone == sa.pc = "plateau" /\ sa'.pc = "plateau" /\ sa'.k = sa.k + 1

\* the interpreter goes on executing the loop: the while test and the plateau
\* bookkeeping under weak fairness, the iteration of the for loop under weak
\* fairness written with IterationPending as its enabling condition
SpecAnnealUnlimited ==
    /\ InitAnnealUnlimited
    /\ [][NextUnlimited]_vars
    /\ WF_vars(StartLevel)
    /\ WF_vars(EndPlateau)
    /\ ([]<>(~ IterationPending) \/ []<><<IterationDone>>_vars)

(***************************************************************************)
(* clarke_wright.py: the merge loop of solve, one savings pair a step, on  *)
(* several distance data.  cw.routes is the list routes, cw.k the position *)
(* of the loop in sorted_savings.                                          *)
(***************************************************************************)
\* distance data of the solver: depot_dist and item_item_dist of the model,
\* data with equal savings, and data whose savings are all negative
DistanceData ==
    { [depot |-> depot_dist, dist |-> item_item_dist],
      [depot |-> << 1, 1, 1, 1 >>,
       dist |-> << << 1, 1, 1, 1 >>, << 1, 1, 1, 1 >>, << 1, 1, 1, 1 >>, << 1, 1, 1, 1 >> >>],
      [depot |-> << 1, 1, 2, 1 >>,
       dist |-> << << 9, 9, 4, 6 >>, << 9, 9, 7, 3 >>, << 4, 7, 9, 8 >>, << 6, 3, 8, 9 >> >>] }

\* calculate_savings of a solver built on the distance data
SavingsOn(data, items) ==
    [r \in 1..Len(Pairs(Len(items))) |->
        data.depot[items[Pairs(Len(items))[r][1]]]
        + data.depot[items[Pairs(Len(items))[r][2]]]
        - data.dist[items[Pairs(Len(items))[r][1]]][items[Pairs(Len(items))[r][2]]]]

\* a solver and a non-empty list of item occurrences, at the start of the loop
\* of clarke_wright.py:49
InitMerge ==
    /\ phase = "merge"
    /\ PalletIdle
    /\ PalletizeIdle
    /\ \E n \in 1..MaxRouteItems, data \in DistanceData : \E items \in [1..n -> ItemIds] :
       \E savings \in {SavingsOn(data, items)} :
          cw = [pc |-> "merging", items |-> items, savings |-> savings,
                sorted_savings |-> SortedSavings(n, SortedDesc(savings)),
                k |-> 1, routes |-> [i \in 1..n |-> << i >>],
                tids |-> << >>, route |-> << >>]
    /\ pa = [pc |-> "idle"]
    /\ sa = [pc |-> "idle"]
    /\ fn = [pc |-> "idle"]
    /\ twin = [pc |-> "idle"]

MergeFrame == UNCHANGED <<phase, palletVars, overlap_hit, palletizeVars, pa, sa, fn, twin>>

\* clarke_wright.py:49-65: one iteration of the loop
MergeStep ==
    /\ phase = "merge"
    /\ cw.pc = "merging"
    /\ cw.k <= Len(cw.sorted_savings)
    /\ cw' = [cw EXCEPT
                !.routes = MergePair(@, cw.sorted_savings[cw.k][1], cw.sorted_savings[cw.k][2],
                                     RouteOf(@, cw.sorted_savings[cw.k][1]),
                                     RouteOf(@, cw.sorted_savings[cw.k][2])),
                !.k = @ + 1]
    /\ MergeFrame

\* clarke_wright.py:67-74: tids lists the temporary ids in the order of the
\* final route
BuildFinalRoute ==
    /\ phase = "merge"
    /\ cw.pc = "merging"
    /\ cw.k > Len(cw.sorted_savings)
    /\ cw' = [cw EXCEPT !.pc = "done", !.tids = Flatten(cw.routes, 1),
                        !.route = FinalRoute(cw.items, Flatten(cw.routes, 1))]
    /\ MergeFrame

NextMerge == MergeStep \/ BuildFinalRoute

SpecMerge == InitMerge /\ [][NextMerge]_vars

(***************************************************************************)
(* pallet.py: clip_ems_by_item and find_best_position called on given      *)
(* arguments                                                               *)
(***************************************************************************)
\* origins and edge lengths of the regions, origins and edge lengths of the
\* placed items clip_ems_by_item is called on
RegionOrigins == {0, 20}
RegionEdges == {25, 60}
FootprintOrigins == {0, 20, 30, 90}
FootprintEdges == {10, 20, 70}

\* an item that was placed at (x, y)
PlacedItem(x, y, length, width) == [Item(1, length, width, 1) EXCEPT !.x = x, !.y = y]

\* a region and a placed item
InitClip ==
    /\ phase = "clip"
    /\ PalletIdle
    /\ PalletizeIdle
    /\ cw = [pc |-> "idle"]
    /\ pa = [pc |-> "idle"]
    /\ sa = [pc |-> "idle"]
    /\ twin = [pc |-> "idle"]
    /\ \E ex \in RegionOrigins, ey \in RegionOrigins, ew \in RegionEdges, eh \in RegionEdges,
          ix \in FootprintOrigins, iy \in FootprintOrigins,
          iw \in FootprintEdges, ih \in FootprintEdges :
          fn = [pc |-> "start", name |-> "clip_ems_by_item", ems |-> EMS(ex, ey, ew, eh),
                item |-> PlacedItem(ix, iy, iw, ih), result |-> << >>]

FnFrame == UNCHANGED <<phase, palletVars, overlap_hit, palletizeVars, cw, pa, sa, twin>>

\* new_ems = self.clip_ems_by_item(ems, item) (pallet.py:122)
ClipEmsByItem ==
    /\ phase = "clip"
    /\ fn.pc = "start"
    /\ fn' = [fn EXCEPT !.pc = "done", !.result = clip_ems_by_item(fn.ems, fn.item)]
    /\ FnFrame

NextClip == ClipEmsByItem

SpecClip == InitClip /\ [][NextClip]_vars

\* find_best_position is called on pallets of at most this many regions
MaxRegions == 2
\* sizes <<length, width>> of the pallets, origins and sizes of their
\* regions, and footprints of the items find_best_position is called on
FindPallets == { <<120, 100>>, <<100, 100>> }
FindOrigins == {0, 20}
FindRegionSizes == { <<15, 40>>, <<40, 40>> }
FindShapes == { <<10, 10>>, <<10, 30>>, <<30, 10>>, <<50, 50>> }

FindRegions ==
    { EMS(x, y, s[1], s[2]) : x \in FindOrigins, y \in FindOrigins, s \in FindRegionSizes }

\* a pallet with a list of regions, and an item
InitFind ==
    /\ phase = "find"
    /\ PalletIdle
    /\ PalletizeIdle
    /\ cw = [pc |-> "idle"]
    /\ pa = [pc |-> "idle"]
    /\ sa = [pc |-> "idle"]
    /\ twin = [pc |-> "idle"]
    /\ \E size \in FindPallets, n \in 0..MaxRegions, shape \in FindShapes :
       \E ems_list \in [1..n -> FindRegions] :
          fn = [pc |-> "start", name |-> "find_best_position",
                pallet |-> [Pallet(1, size[1], size[2]) EXCEPT !.ems_list = ems_list],
                item |-> Item(1, shape[1], shape[2], 1), result |-> << >>]

\* candidate = self.find_best_position(item) (pallet.py:145)
FindBestPosition ==
    /\ phase = "find"
    /\ fn.pc = "start"
    /\ fn' = [fn EXCEPT !.pc = "done", !.result = find_best_position(fn.pallet, fn.item)]
    /\ FnFrame

NextFind == FindBestPosition

SpecFind == InitFind /\ [][NextFind]_vars

(***************************************************************************)
(* Two runs of an optimizer on the same arguments after random.seed(seed)  *)
(* with the same seed (run.py:100-103): sa is the first run and twin the   *)
(* second.  The generators hand the k-th run the same numbers, so while    *)
(* the runs are at the same point they get the same draws; the clock of    *)
(* time.time() is read by each run on its own.                             *)
(***************************************************************************)
TwinOrderCounts == {2, 3}
TwinOrderLists == { << 1 >>, << 3 >> }
TwinPlateauMultipliers == {1}
TwinColdFrom == {1}
ElapsedSeconds == {1, 2}

\* the draws of two runs that are not seeded alike
IndependentDraws(c1, c2) == TRUE

\* run.py:102-103: the draws of two runs seeded alike
SameDraws(c1, c2) == c1 = c2

RunPending(run) == run.pc = "plateau" /\ run.k <= run.plateau_len

DrawsOf(run) ==
    { d \in [b1 : NonEmptyBatches(run.current.orders), b2 : NonEmptyBatches(run.current.orders),
             o1 : DOMAIN orders, o2 : DOMAIN orders] :
         /\ d.b1 # d.b2
         /\ \E i \in 1..Len(run.current.orders[d.b1]) : run.current.orders[d.b1][i] = d.o1
         /\ \E i \in 1..Len(run.current.orders[d.b2]) : run.current.orders[d.b2][i] = d.o2 }

NoDraw == [b1 |-> 0, b2 |-> 0, o1 |-> 0, o2 |-> 0]

\* what an iteration takes from the generator: the pallets and orders of
\* random.sample and random.choice, and whether random.random() falls below
\* the acceptance probability
ChoicesOf(run) ==
    IF RunPending(run) /\ Cardinality(NonEmptyBatches(run.current.orders)) >= 2
    THEN [d : DrawsOf(run), below : BOOLEAN]
    ELSE { [d |-> NoDraw, below |-> FALSE] }

\* the stats dict with its runtime_seconds (sa_improvement_routing.py:172-178, 292-298)
TimedStats(run, reason, elapsed) ==
    [run |-> Stats(run, reason), runtime_seconds |-> elapsed]

RunStop(run, reason, elapsed) ==
    [run EXCEPT !.pc = "returned", !.stopped_reason = reason,
                !.returned = Returned(run), !.stats = TimedStats(run, reason, elapsed)]

RunContinue(run, kind) ==
    [run EXCEPT !.k = @ + 1, !.move_counter = @ + 1, !.last = kind]

RunDecide(run, new, accepted) ==
    [run EXCEPT
       !.k = @ + 1, !.move_counter = @ + 1,
       !.last = IF accepted THEN "accepted" ELSE "rejected",
       !.current = Commit(@, new, accepted),
       !.lowest = IF accepted /\ new.value < @ THEN new.value ELSE @,
       !.best = IF accepted /\ Improves(new, @) THEN new ELSE @,
       !.improved_in_plateau = @ \/ (accepted /\ Improves(new, run.best))]

\* sa_improvement_routing.py:162-279, 461-570 without the time-limit tests:
\* next is the state of the run after its next step on the choice c
RunNext(run, next, c) ==
    \/ /\ run.pc = "level"
       /\ next = [run EXCEPT !.pc = "plateau", !.level = @ + 1, !.k = 1,
                             !.improved_in_plateau = FALSE, !.last = "none",
                             !.level_best = run.best.value]
    \/ /\ RunPending(run)
       /\ Cardinality(NonEmptyBatches(run.current.orders)) < 2
       /\ next = RunContinue(run, "skipped")
    \/ /\ RunPending(run)
       /\ c.d \in DrawsOf(run)
       /\ \E new_orders \in {swap_two_orders_between_batches(run.current.orders,
                                                             c.d.b1, c.d.b2, c.d.o1, c.d.o2)} :
             IF ~ Feasible(new_orders, c.d)
             THEN next = RunContinue(run, "infeasible")
             ELSE \E new_routes \in {NewRoutes(run.current.routes, new_orders, c.d.b1, c.d.b2)} :
                  \E new_distances \in {NewDistances(run.current.distances, new_routes,
                                                     c.d.b1, c.d.b2)} :
                  \E new \in {Solution(run.objective, run.num_pickers, new_orders,
                                       new_routes, new_distances)} :
                  \E outcomes \in {Accepted(Delta(run.objective, run.current, new, c.d.b1, c.d.b2),
                                            run.T < run.cold_from)} :
                  \E accepted \in outcomes :
                     /\ outcomes = BOOLEAN => accepted = c.below
                     /\ next = RunDecide(run, new, accepted)
    \/ /\ run.pc = "plateau"
       /\ run.k > run.plateau_len
       /\ IF PlateauStops(run.improved_in_plateau)
          THEN \E elapsed \in ElapsedSeconds :
                  next = RunStop(run, "no_improvement_in_plateau", elapsed)
          ELSE next = [run EXCEPT !.pc = "level", !.T = @ + 1]

\* sa_improvement_routing.py:155-161, 166-185: the run reads its clock
RunAtClock(run) == run.pc = "level" \/ RunPending(run)

InitTwin ==
    /\ phase = "twin"
    /\ AnnealStart
    /\ Len(orders) \in TwinOrderCounts
    /\ \A o \in DOMAIN orders : orders[o] \in TwinOrderLists
    /\ sa.K \in TwinPlateauMultipliers
    /\ sa.cold_from \in TwinColdFrom
    /\ sa.objective = "routing"
    /\ twin = sa

TwinFrame == UNCHANGED <<phase, palletVars, overlap_hit, palletizeVars, cw, pa, fn>>

\* both runs take their next step on the draws of their generators
TwinStep ==
    /\ phase = "twin"
    /\ sa.pc # "returned"
    /\ twin.pc # "returned"
    /\ \E c1 \in ChoicesOf(sa), c2 \in ChoicesOf(twin) :
          /\ SameDraws(c1, c2)
          /\ RunNext(sa, sa', c1)
          /\ RunNext(twin, twin', c2)
    /\ TwinFrame

\* a run goes on after the other has returned
FirstAlone ==
    /\ phase = "twin"
    /\ twin.pc = "returned"
    /\ \E c \in ChoicesOf(sa) : RunNext(sa, sa', c)
    /\ UNCHANGED twin
    /\ TwinFrame

SecondAlone ==
    /\ phase = "twin"
    /\ sa.pc = "returned"
    /\ \E c \in ChoicesOf(twin) : RunNext(twin, twin', c)
    /\ UNCHANGED sa
    /\ TwinFrame

\* the clock of a run has passed max_runtime_seconds at one of its tests
FirstTimeLimit ==
    /\ phase = "twin"
    /\ RunAtClock(sa)
    /\ \E elapsed \in ElapsedSeconds : sa' = RunStop(sa, "time_limit", elapsed)
    /\ UNCHANGED twin
    /\ TwinFrame

SecondTimeLimit ==
    /\ phase = "twin"
    /\ RunAtClock(twin)
    /\ \E elapsed \in ElapsedSeconds : twin' = RunStop(twin, "time_limit", elapsed)
    /\ UNCHANGED sa
    /\ TwinFrame

NextTwin == TwinStep \/ FirstAlone \/ SecondAlone \/ FirstTimeLimit \/ SecondTimeLimit

SpecTwin == InitTwin /\ [][NextTwin]_vars

Init ==
    \/ InitPallet \/ InitPalletize \/ InitRoute \/ InitAssign \/ InitAnneal
    \/ InitMerge \/ InitClip \/ InitFind \/ InitTwin

Next ==
    \/ PlaceItem \/ TryPlaceItem
    \/ ProcessOrder \/ Return \/ Bblf
    \/ Solve \/ ComputeRouteDistance
    \/ PickerAssignment
    \/ LevelTimeLimit \/ StartLevel \/ PlateauTimeLimit
    \/ Skip \/ Infeasible \/ Evaluate \/ EndPlateau
    \/ MergeStep \/ BuildFinalRoute
    \/ ClipEmsByItem \/ FindBestPosition
    \/ TwinStep \/ FirstAlone \/ SecondAlone \/ FirstTimeLimit \/ SecondTimeLimit

Spec == Init /\ [][Next]_vars

(***************************************************************************)
(* Properties                                                              *)
(***************************************************************************)
Range(s) == {s[k] : k \in 1..Len(s)}

\* every pallet of the state: the one the calls drive and those of palletize_orders
AllPallets == {pallet} \cup Range(pallets)

\* two boxes x, y, length, width share interior points
BoxesOverlap(a, b) ==
    /\ a.x < b.x + b.length
    /\ b.x < a.x + a.length
    /\ a.y < b.y + b.width
    /\ b.y < a.y + a.width

InsidePallet(p, b) ==
    /\ 0 <= b.x
    /\ 0 <= b.y
    /\ b.x + b.length <= p.length
    /\ b.y + b.width <= p.width

\* C1: on every pallet, no two committed items overlap (shared edges allowed)
\* and every committed item lies within the pallet
C1_PackingValid ==
    \A p \in AllPallets :
        /\ \A i, j \in 1..Len(p.items) : i # j => ~ BoxesOverlap(p.items[i], p.items[j])
        /\ \A i \in 1..Len(p.items) : InsidePallet(p, p.items[i])

\* palletize_orders has returned two orders on one pallet, one of them turned
C1_Witness ==
    /\ phase = "palletize"
    /\ pc = "returned"
    /\ \E p \in Range(pallets) :
          /\ Len(p.items) >= 3
          /\ \E i, j \in 1..Len(p.items) :
                /\ p.items[i].order_id # p.items[j].order_id
                /\ p.items[i].rotated
                /\ p.items[j].y > 0

ItemAreas(p) == SumSeq([k \in 1..Len(p.items) |-> p.items[k].length * p.items[k].width], 1)

\* C4: occupied_area is the sum of the committed items' areas, occupied_area
\* + free_area is the pallet's area, and a call that returned False left both
\* counters as they were
C4_AreaCounters ==
    /\ pallet.occupied_area = ItemAreas(pallet)
    /\ pallet.occupied_area + pallet.free_area = pallet.length * pallet.width
    /\ (op # "init" /\ ~ ret) =>
          /\ pallet.occupied_area = pre.occupied_area
          /\ pallet.free_area = pre.free_area

\* three items are committed and the last place_item call returned False
C4_Witness ==
    /\ phase = "pallet"
    /\ op = "place_item"
    /\ ~ ret
    /\ Len(pallet.items) = 3
    /\ pallet.occupied_area > 0
    /\ pallet.free_area > 0

EmsAreas(p) == SumSeq([k \in 1..Len(p.ems_list) |-> p.ems_list[k].area], 1)

\* the area of the union of the regions of a list, summed over the cells of
\* the grid their edges draw
UnionArea(ems_list) ==
    LET xs == {ems_list[k].x : k \in 1..Len(ems_list)}
                \cup {ems_list[k].x + ems_list[k].length : k \in 1..Len(ems_list)}
        ys == {ems_list[k].y : k \in 1..Len(ems_list)}
                \cup {ems_list[k].y + ems_list[k].width : k \in 1..Len(ems_list)}
        xcuts == SortedSeq(xs)
        ycuts == SortedSeq(ys)
        Covered(i, j) ==
            \E k \in 1..Len(ems_list) :
                /\ ems_list[k].x <= xcuts[i]
                /\ xcuts[i + 1] <= ems_list[k].x + ems_list[k].length
                /\ ems_list[k].y <= ycuts[j]
                /\ ycuts[j + 1] <= ems_list[k].y + ems_list[k].width
        Row(i) == SumSeq([j \in 1..(Len(ycuts) - 1) |->
                            IF Covered(i, j)
                            THEN (xcuts[i + 1] - xcuts[i]) * (ycuts[j + 1] - ycuts[j])
                            ELSE 0], 1)
    IN  IF ems_list = << >> THEN 0
        ELSE SumSeq([i \in 1..(Len(xcuts) - 1) |-> Row(i)], 1)

\* C5 as stated: occupied_area plus the sum of the areas of the EMS regions is
\* at most the pallet's area
C5_SumOfRegions ==
    pallet.occupied_area + EmsAreas(pallet) <= pallet.length * pallet.width

\* C5, amended: occupied_area plus the area the EMS regions cover together
\* (their union) is at most the pallet's area
C5_UnionOfRegions ==
    pallet.occupied_area + UnionArea(pallet.ems_list) <= pallet.length * pallet.width

\* two placements have left regions that overlap one another
C5_Witness ==
    /\ phase = "pallet"
    /\ ret
    /\ Len(pallet.items) >= 2
    /\ \E i, j \in 1..Len(pallet.ems_list) :
          i # j /\ BoxesOverlap(pallet.ems_list[i], pallet.ems_list[j])

\* C6: every EMS region lies within the pallet and overlaps no committed item
C6_EmsFree ==
    \A k \in 1..Len(pallet.ems_list) :
        /\ InsidePallet(pallet, pallet.ems_list[k])
        /\ \A i \in 1..Len(pallet.items) :
              ~ BoxesOverlap(pallet.ems_list[k], pallet.items[i])

\* three items are committed and several regions remain
C6_Witness ==
    /\ phase = "pallet"
    /\ ret
    /\ Len(pallet.items) = 3
    /\ Len(pallet.ems_list) >= 3

\* it fits region ems in one of the two orientations
FitsRegion(it, ems) ==
    \/ it.length <= ems.length /\ it.width <= ems.width
    \/ it.width <= ems.length /\ it.length <= ems.width

\* C7: no place_item call leaves through the overlap check, on the driven
\* pallet, on the scratch pallets or on the pallets of palletize_orders; and
\* place_item returns False only when the item fits no region either way
C7_OverlapCheckNeverRejects ==
    /\ ~ overlap_hit
    /\ (op = "place_item" /\ ~ ret) =>
          \A k \in 1..Len(pre.ems_list) : ~ FitsRegion(arg, pre.ems_list[k])

\* place_item returned False on a pallet that holds items and has regions left
C7_Witness ==
    /\ phase = "pallet"
    /\ op = "place_item"
    /\ ~ ret
    /\ Len(pre.items) >= 2
    /\ Len(pre.ems_list) >= 2

\* C8: after a successful place_item (called directly or by try_place_item)
\* every region has both edges >= 10 and no region lies within a different
\* region of the list
C8_Pruned ==
    (op # "init" /\ ret) =>
        /\ \A k \in 1..Len(pallet.ems_list) :
              pallet.ems_list[k].length >= 10 /\ pallet.ems_list[k].width >= 10
        /\ \A k, j \in 1..Len(pallet.ems_list) :
              k # j => ~ Dominated(pallet.ems_list, k, j)

\* a successful place_item clipped several regions and left several
C8_Witness ==
    /\ phase = "pallet"
    /\ op = "place_item"
    /\ ret
    /\ Len(pre.ems_list) >= 2
    /\ Len(pallet.ems_list) >= 3

\* C9: when try_place_item returns False the item and the pallet are as they
\* were before the call
C9_FailedTryRestores ==
    (op = "try_place_item" /\ ~ ret) =>
        /\ item.length = arg.length
        /\ item.width = arg.width
        /\ item.rotated = arg.rotated
        /\ item.x = arg.x
        /\ item.y = arg.y
        /\ pallet.items = pre.items
        /\ pallet.ems_list = pre.ems_list
        /\ pallet.occupied_area = pre.occupied_area
        /\ pallet.free_area = pre.free_area

\* try_place_item returned False for an item passed rotated, on a used pallet
C9_Witness ==
    /\ phase = "pallet"
    /\ op = "try_place_item"
    /\ ~ ret
    /\ arg.rotated
    /\ Len(pre.items) >= 1
    /\ Len(pre.ems_list) >= 1

\* the number of positions of s whose element satisfies Test
Count(s, Test(_)) == Cardinality({k \in 1..Len(s) : Test(s[k])})

\* C2: every mapped order has all its item occurrences on the pallet it is
\* mapped to, and a pallet holds items of no other order: none of a failed
\* order, none of an order mapped elsewhere
C2_OrdersWhole ==
    /\ \A o \in DOMAIN order_pallet_mapping :
          \E k \in 1..Len(pallets) :
              /\ pallets[k].id = order_pallet_mapping[o]
              /\ \A i \in ItemIds :
                    LET OnPallet(it) == it.order_id = o /\ it.item_id = i
                        InOrder(id) == id = i
                    IN  Count(pallets[k].items, OnPallet) = Count(orders[o], InOrder)
    /\ \A k \in 1..Len(pallets) : \A j \in 1..Len(pallets[k].items) :
          LET o == pallets[k].items[j].order_id
          IN  /\ o \in DOMAIN order_pallet_mapping
              /\ order_pallet_mapping[o] = pallets[k].id

\* an order of two items was committed to a pallet that held another order
C2_Witness ==
    /\ phase = "palletize"
    /\ \E o \in trial_accepted :
          /\ Len(orders[o]) >= 2
          /\ \E k \in 1..Len(pallets) :
                /\ pallets[k].id = order_pallet_mapping[o]
                /\ Len(pallets[k].items) >= 3

FailedEntries(o) == {e \in 1..Len(failed_orders) : failed_orders[e].order_id = o}

\* C3: once palletize_orders has returned, every input order is mapped or has
\* exactly one failed entry, never both; bblf lists a mapped order in exactly
\* one pallet's list, once, and a failed order in none
C3_MappedOrFailed ==
    /\ pc # "bblf_error"
    /\ pc \in {"returned", "bblf_done"} =>
          /\ DOMAIN order_pallet_mapping \subseteq DOMAIN orders
          /\ \A e \in 1..Len(failed_orders) : failed_orders[e].order_id \in DOMAIN orders
          /\ \A o \in DOMAIN orders :
                \/ o \in DOMAIN order_pallet_mapping /\ FailedEntries(o) = {}
                \/ o \notin DOMAIN order_pallet_mapping /\ Cardinality(FailedEntries(o)) = 1
    /\ pc = "bblf_done" =>
          \A o \in DOMAIN orders :
              LET places == {pk \in (1..Len(pallet_orders)) \X (1..Len(orders)) :
                                /\ pk[2] <= Len(pallet_orders[pk[1]])
                                /\ pallet_orders[pk[1]][pk[2]] = o}
              IN  Cardinality(places) = (IF o \in DOMAIN order_pallet_mapping THEN 1 ELSE 0)

\* bblf has built a batching of two pallets from a run with a failed order
C3_Witness ==
    /\ pc = "bblf_done"
    /\ Len(pallet_orders) >= 2
    /\ Len(failed_orders) >= 1
    /\ \E p \in 1..Len(pallet_orders) : Len(pallet_orders[p]) >= 2

\* the position of the first item of its that sequential placement on a fresh
\* empty pallet does not place, 0 if it places them all
FirstUnplaced(its) ==
    LET Placed(j) ==
            Len(PlaceAll(Pallet(1, PalletLength, PalletWidth), SubSeq(its, 1, j), 1).pallet.items) = j
    IN  IF Placed(Len(its)) THEN 0
        ELSE CHOOSE k \in 1..Len(its) : ~ Placed(k) /\ \A j \in 1..(k - 1) : Placed(j)

\* the orders the loop has dealt with
Processed == {sorted_orders[k] : k \in 1..(next_order - 1)}

\* the order has one failed entry, naming the first item a fresh pallet does
\* not take, and is neither mapped nor on any pallet
FailedOnce(o) ==
    LET its == OrderItems(o, orders[o])
    IN  /\ Cardinality(FailedEntries(o)) = 1
        /\ \A e \in FailedEntries(o) :
              failed_orders[e].failed_item = its[FirstUnplaced(its)].item_id
        /\ o \notin DOMAIN order_pallet_mapping
        /\ \A p \in Range(pallets) : \A j \in 1..Len(p.items) : p.items[j].order_id # o

\* every retained pallet has an order mapped to it, and the loop ends only
\* when every order has been dealt with
PalletsUsedAndLoopComplete ==
    /\ \A p \in Range(pallets) : \E o \in DOMAIN order_pallet_mapping : order_pallet_mapping[o] = p.id
    /\ pc \in {"returned", "bblf_done"} => Processed = DOMAIN orders

\* C10 as stated: every order that a fresh empty pallet cannot take in full
\* has, once dealt with, exactly one failed entry naming the first item that
\* did not fit, and is on no pallet
C10_FreshFailureIsFailed ==
    /\ PalletsUsedAndLoopComplete
    /\ \A o \in Processed :
          FirstUnplaced(OrderItems(o, orders[o])) # 0 => FailedOnce(o)

\* it fits the empty pallet in neither orientation
Oversize(it) ==
    /\ it.length > PalletLength \/ it.width > PalletWidth
    /\ it.width > PalletLength \/ it.length > PalletWidth

\* C10, amended: every order that no existing pallet accepted in its trial and
\* that a fresh empty pallet cannot take in full (so every order with an item
\* larger than the pallet in both orientations) has, once dealt with, exactly
\* one failed entry naming the first item that did not fit, and is on no
\* pallet; every retained pallet has an order, and the run goes on to the end
C10_UnacceptedFreshFailureIsFailed ==
    /\ PalletsUsedAndLoopComplete
    /\ \A o \in Processed :
          LET its == OrderItems(o, orders[o])
          IN  /\ (FirstUnplaced(its) # 0 /\ o \notin trial_accepted) => FailedOnce(o)
              /\ (\E k \in 1..Len(its) : Oversize(its[k])) => FailedOnce(o)
              /\ FailedEntries(o) # {} => FailedOnce(o)

\* an order failed on its second item, an order with an oversize item failed,
\* and a later order was still placed
C10_Witness ==
    /\ pc = "returned"
    /\ Len(failed_orders) >= 2
    /\ \E e \in 1..Len(failed_orders) :
          FirstUnplaced(OrderItems(failed_orders[e].order_id,
                                   orders[failed_orders[e].order_id])) = 2
    /\ \E e \in 1..Len(failed_orders) : failed_orders[e].failed_item = 4
    /\ \E o \in DOMAIN order_pallet_mapping, e \in 1..Len(failed_orders) :
          \E k, j \in 1..Len(sorted_orders) :
              /\ sorted_orders[k] = failed_orders[e].order_id
              /\ sorted_orders[j] = o
              /\ k < j

(***************************************************************************)
(* The route solver                                                        *)
(***************************************************************************)
\* the number of elements of s equal to v
Occurrences(s, v) == Cardinality({k \in 1..Len(s) : s[k] = v})

\* C11: the route solve returns starts and ends with the depot sentinel and
\* its interior holds exactly the input occurrences, each item id as often
\* as the input lists it; for empty input the route is [Depot, Depot] and
\* its distance is 0
C11_RouteIsInputBetweenDepots ==
    (phase = "route" /\ cw.pc \in {"solved", "measured"}) =>
        /\ Len(cw.route) = Len(cw.items) + 2
        /\ cw.route[1] = Depot
        /\ cw.route[Len(cw.route)] = Depot
        /\ \A i \in ItemIds :
              Occurrences(SubSeq(cw.route, 2, Len(cw.route) - 1), i) = Occurrences(cw.items, i)
        /\ Len(cw.items) = 0 => cw.route = << Depot, Depot >>
        /\ (Len(cw.items) = 0 /\ cw.pc = "measured") => cw.distance = 0

\* a list that holds an item twice was routed with a merge, the two
\* occurrences not adjacent in the route
C11_Witness ==
    /\ phase = "route"
    /\ cw.pc = "measured"
    /\ Len(cw.items) >= 3
    /\ cw.route # << Depot >> \o cw.items \o << Depot >>
    /\ \E i \in ItemIds : Occurrences(cw.items, i) = 2
    /\ cw.distance > 0

(***************************************************************************)
(* The picker load balancer                                                *)
(***************************************************************************)
\* the sum of the distances of the pallets of one picker's list
ListDistance(pallet_ids, pallet_distances) ==
    SumSeq([k \in 1..Len(pallet_ids) |-> pallet_distances[pallet_ids[k]]], 1)

\* the triple is what picker_assignment owes for the distances and a
\* positive number of pickers
AssignmentValid(result, pallet_distances, num_pickers) ==
    /\ result.outcome = "returned"
    /\ Len(result.picker_assignments) = num_pickers
    /\ Len(result.picker_loads) = num_pickers
    /\ \A i \in 1..num_pickers :
          result.picker_loads[i] = ListDistance(result.picker_assignments[i], pallet_distances)
    /\ \A i \in 1..num_pickers : result.picker_loads[i] <= result.makespan
    /\ \E i \in 1..num_pickers : result.picker_loads[i] = result.makespan
    /\ \A p \in 1..Len(pallet_distances) :
          Cardinality({ik \in (1..num_pickers) \X (1..Len(pallet_distances)) :
                          /\ ik[2] <= Len(result.picker_assignments[ik[1]])
                          /\ result.picker_assignments[ik[1]][ik[2]] = p}) = 1
    /\ \A i \in 1..num_pickers : \A k \in 1..Len(result.picker_assignments[i]) :
          result.picker_assignments[i][k] \in 1..Len(pallet_distances)

\* C12: for a positive picker count every picker's load is the sum of the
\* distances of the pallets in its list, the makespan is the largest load,
\* and every pallet id 1..n is in exactly one list, once
C12_LoadsMakespanPartition ==
    (phase = "assign" /\ pa.pc = "done" /\ pa.num_pickers > 0) =>
        AssignmentValid(pa.result, pa.pallet_distances, pa.num_pickers)

\* three pallets went to two pickers, the second picker took two of them
\* and carries the makespan
C12_Witness ==
    /\ phase = "assign"
    /\ pa.pc = "done"
    /\ pa.num_pickers = 2
    /\ Len(pa.pallet_distances) = 3
    /\ Len(pa.result.picker_assignments[2]) = 2
    /\ pa.result.makespan = pa.result.picker_loads[2]
    /\ pa.result.picker_loads[1] > 0
    /\ pa.result.picker_loads[1] < pa.result.makespan

\* C13: a call with num_pickers <= 0 never returns a result, whatever the
\* distance list
C13_NoPickersNeverReturns ==
    (phase = "assign" /\ pa.pc = "done" /\ pa.num_pickers <= 0) =>
        pa.result.outcome # "returned"

(***************************************************************************)
(* The annealing optimizers                                                *)
(***************************************************************************)
Running == phase = "anneal" /\ sa.pc \in {"level", "plateau"}

\* C14: a run with a plateau multiplier K <= 0 does not run to a result
C14_NonPositiveKNeverReturns ==
    (phase = "anneal" /\ sa.K <= 0) => sa.pc # "returned"

\* C15: from one step of a run to the next the best objective value never
\* increases
C15_BestNeverIncreases ==
    [][phase = "anneal" => sa'.best.value <= sa.best.value]_vars

\* the best value was lowered, and the current solution is worse than the best
C15_Witness ==
    /\ Running
    /\ sa.best.value < sa.initial.value
    /\ sa.current.value > sa.best.value

\* the number of times order id o is listed on the pallets of a batching
Listed(batching, o) ==
    Cardinality({pi \in (1..Len(batching)) \X (1..Cardinality(DOMAIN orders)) :
                    /\ pi[2] <= Len(batching[pi[1]])
                    /\ batching[pi[1]][pi[2]] = o})

\* the batching lists the order ids of the initial batching, each once, on
\* the pallets of the initial batching
SameOrders(batching) ==
    /\ Len(batching) = Len(sa.initial.orders)
    /\ \A p \in 1..Len(batching) : Len(batching[p]) <= Cardinality(DOMAIN orders)
    /\ \A p \in 1..Len(batching) : \A i \in 1..Len(batching[p]) :
          batching[p][i] \in DOMAIN orders
    /\ \A o \in DOMAIN orders : Listed(batching, o) = Listed(sa.initial.orders, o)
    /\ \A o \in DOMAIN orders : Listed(batching, o) = 1

\* C16: the current and the best batching list exactly the order ids of the
\* initial batching, each on exactly one pallet, once
C16_OrdersKept ==
    phase = "anneal" => SameOrders(sa.current.orders) /\ SameOrders(sa.best.orders)

\* swaps were accepted: the current, the best and the initial batching differ
C16_Witness ==
    /\ Running
    /\ sa.current.orders # sa.initial.orders
    /\ sa.best.orders # sa.initial.orders
    /\ sa.current.orders # sa.best.orders

\* C17 as stated: the returned solution is the best snapshot and its value
\* is at most the initial value and the value of every solution that was
\* current
C17_ReturnsLowestSeen ==
    (phase = "anneal" /\ sa.pc = "returned") =>
        /\ sa.returned = sa.best
        /\ sa.best.value <= sa.initial.value
        /\ sa.best.value <= sa.lowest

\* C17, amended: the returned solution is the best snapshot, its value is at
\* most the initial value, and it exceeds the value of no solution that was
\* current by more than the tolerance of the best-seen test
C17_ReturnsBestWithinTolerance ==
    (phase = "anneal" /\ sa.pc = "returned") =>
        /\ sa.returned = sa.best
        /\ sa.best.value <= sa.initial.value
        /\ sa.best.value <= sa.lowest + Tolerance

\* the time limit ended a run inside a plateau while the current solution
\* was worse than a best snapshot found during the run
C17_Witness ==
    /\ phase = "anneal"
    /\ sa.pc = "returned"
    /\ sa.stopped_reason = "time_limit"
    /\ sa.k >= 2
    /\ sa.k <= sa.plateau_len
    /\ sa.best.value < sa.initial.value
    /\ sa.current.value > sa.best.value
    /\ sa.returned.orders # sa.current.orders

\* routes, distances and, under the makespan objective, assignment, loads and
\* makespan of a solution are those of its batching
Consistent(sol) ==
    /\ Len(sol.routes) = Len(sol.orders)
    /\ Len(sol.distances) = Len(sol.orders)
    /\ \A p \in 1..Len(sol.orders) :
          /\ sol.routes[p] = solve(BatchItems(sol.orders[p]))
          /\ sol.distances[p] = compute_route_distance(sol.routes[p])
    /\ sa.objective = "makespan" =>
          /\ picker_assignment(sol.distances, sa.num_pickers).outcome = "returned"
          /\ sol.assignments = picker_assignment(sol.distances, sa.num_pickers).picker_assignments
          /\ sol.loads = picker_assignment(sol.distances, sa.num_pickers).picker_loads
          /\ sol.value = picker_assignment(sol.distances, sa.num_pickers).makespan

\* C18: at every iteration boundary the current routes, distances and
\* (makespan objective) assignment, loads and makespan are those solve,
\* compute_route_distance and picker_assignment give for the current
\* batching, and the parts of the best snapshot agree in the same way
C18_SolutionsConsistent ==
    phase = "anneal" => Consistent(sa.current) /\ Consistent(sa.best)

\* under the makespan objective moves were accepted that changed the
\* distances and the assignment, and the best snapshot was replaced
C18_Witness ==
    /\ Running
    /\ sa.objective = "makespan"
    /\ sa.current.distances # sa.initial.distances
    /\ sa.current.assignments # sa.initial.assignments
    /\ sa.best.distances # sa.initial.distances
    /\ sa.best.assignments # sa.initial.assignments

\* every pallet of the batching passes the repack check
Repackable(batching) == \A p \in 1..Len(batching) : try_repack_single_batch(batching[p])

FullPlateaus(level) == level * (IF sa.plateau_len > 0 THEN sa.plateau_len ELSE 0)

\* C20: a run that the time limit does not stop ends with
\* no_improvement_in_plateau, at the end of a plateau, the first that did not
\* lower the best value; the end of a plateau that lowered it multiplies the
\* temperature by alpha once and leads to another plateau of K x (initial
\* number of pallets) iterations; the stop reason of a returned run is
\* time_limit or no_improvement_in_plateau
C20_StopsAtFirstIdlePlateau ==
    /\ [][phase = "anneal" =>
            /\ (sa'.pc = "returned" /\ sa.pc # "returned"
                   /\ sa'.stopped_reason # "time_limit")
               => /\ sa'.stopped_reason = "no_improvement_in_plateau"
                  /\ sa.pc = "plateau"
                  /\ sa.move_counter = FullPlateaus(sa.level)
                  /\ sa.best.value = sa.level_best
                  /\ sa.T = sa.level - 1
            /\ (sa.pc = "plateau" /\ sa.k > sa.plateau_len /\ sa.best.value # sa.level_best)
               => /\ sa'.pc = "level"
                  /\ sa'.T = sa.T + 1
            /\ (sa.pc = "plateau" /\ sa.k > sa.plateau_len /\ sa.best.value = sa.level_best)
               => sa'.pc = "returned"
            /\ sa'.T # sa.T
               => sa.pc = "plateau" /\ sa.k > sa.plateau_len /\ sa'.T = sa.T + 1
            /\ sa'.level # sa.level
               => sa.pc = "level" /\ sa'.level = sa.level + 1 /\ sa'.k = 1
                  /\ sa'.pc = "plateau"]_vars
    /\ [](phase = "anneal" =>
            /\ sa.plateau_len = sa.K * Len(sa.initial.orders)
            /\ sa.pc = "returned" =>
                  sa.stopped_reason \in {"time_limit", "no_improvement_in_plateau"})

\* a run cooled once after a plateau that lowered the best value and stopped
\* at the end of its second plateau
C20_Witness ==
    /\ phase = "anneal"
    /\ sa.pc = "returned"
    /\ sa.stopped_reason = "no_improvement_in_plateau"
    /\ sa.level = 2
    /\ sa.T = 1
    /\ sa.plateau_len >= 2
    /\ sa.move_counter = 2 * sa.plateau_len
    /\ sa.best.value < sa.initial.value

\* the plateaus of a run all of whose iterations were made: every iteration
\* adds one to move_counter, and a plateau without iterations is complete
\* when it is started
CompletedPlateaus ==
    IF sa.plateau_len > 0 THEN sa.move_counter \div sa.plateau_len ELSE sa.level

\* C21: the levels_completed statistic of a returned run is the number of
\* plateaus that ran all their iterations
C21_LevelsCompletedCountsFullPlateaus ==
    (phase = "anneal" /\ sa.pc = "returned") =>
        sa.stats.levels_completed = CompletedPlateaus

(***************************************************************************)
(* clip_ems_by_item and find_best_position                                 *)
(***************************************************************************)
\* the rectangle a lies within the rectangle b
Within(a, b) ==
    /\ b.x <= a.x
    /\ b.y <= a.y
    /\ a.x + a.length <= b.x + b.length
    /\ a.y + a.width <= b.y + b.width

\* C23: every region clip_ems_by_item returns lies inside the clipped region
\* and does not overlap the item; nothing is returned when the item covers
\* the region, and the region alone when the item does not intersect it
C23_ClippedRegionsInsideAndFree ==
    (phase = "clip" /\ fn.pc = "done") =>
        /\ \A k \in 1..Len(fn.result) :
              /\ Within(fn.result[k], fn.ems)
              /\ ~ BoxesOverlap(fn.result[k], fn.item)
        /\ Within(fn.ems, fn.item) => fn.result = << >>
        /\ ~ BoxesOverlap(fn.ems, fn.item) => fn.result = << fn.ems >>

\* the footprint of the item in orientation o (0 unrotated, 1 rotated)
Oriented(it, o) ==
    IF o = 1 THEN [length |-> it.width, width |-> it.length]
    ELSE [length |-> it.length, width |-> it.width]

\* the candidates <<orientation, region>> whose footprint fits the region
FeasibleCandidates(p, it) ==
    { c \in {0, 1} \X (1..Len(p.ems_list)) :
         /\ Oriented(it, c[1]).length <= p.ems_list[c[2]].length
         /\ Oriented(it, c[1]).width <= p.ems_list[c[2]].width }

\* the squared distance between the far corner of candidate c and the far
\* corner of the pallet
FarCornerScore(p, it, c) ==
    (p.length - (p.ems_list[c[2]].x + Oriented(it, c[1]).length))
        * (p.length - (p.ems_list[c[2]].x + Oriented(it, c[1]).length))
    + (p.width - (p.ems_list[c[2]].y + Oriented(it, c[1]).width))
        * (p.width - (p.ems_list[c[2]].y + Oriented(it, c[1]).width))

\* candidate c comes before candidate d in the enumeration: unrotated before
\* rotated, then in the order of the region list
EnumeratedBefore(c, d) == c[1] < d[1] \/ (c[1] = d[1] /\ c[2] < d[2])

CurrentOrder == sorted_orders[next_order]
CurrentItems == OrderItems(CurrentOrder, orders[CurrentOrder])

\* the scratch trial of the current order on pallets[k] places every item
TrialFits(k) == Trial(pallets, k, CurrentItems).ok

\* C25: orders are dealt with in descending total area; an order goes to the
\* first existing pallet, in creation order, whose scratch trial places all
\* its items; a pallet is opened only after the trial failed on every
\* existing pallet; the pallets carry the ids 1, 2, 3, ... in creation order
C25_FirstFittingPalletElseNew ==
    /\ [][(phase = "palletize" /\ next_order' = next_order + 1) =>
            /\ (\E k \in 1..Len(pallets) : TrialFits(k)) =>
                  /\ Len(pallets') = Len(pallets)
                  /\ CurrentOrder \in DOMAIN order_pallet_mapping'
                  /\ \E k \in 1..Len(pallets) :
                        /\ TrialFits(k)
                        /\ \A j \in 1..(k - 1) : ~ TrialFits(j)
                        /\ order_pallet_mapping'[CurrentOrder] = pallets[k].id
                        /\ \A j \in 1..Len(pallets) : j # k => pallets'[j] = pallets[j]
                        /\ Len(pallets'[k].items) = Len(pallets[k].items) + Len(CurrentItems)
            /\ Len(pallets') # Len(pallets) =>
                  /\ \A k \in 1..Len(pallets) : ~ TrialFits(k)
                  /\ Len(pallets') = Len(pallets) + 1
                  /\ SubSeq(pallets', 1, Len(pallets)) = pallets
                  /\ pallets'[Len(pallets')].id = Len(pallets')
                  /\ order_pallet_mapping'[CurrentOrder] = Len(pallets')
            /\ \A o \in DOMAIN order_pallet_mapping :
                  /\ o \in DOMAIN order_pallet_mapping'
                  /\ order_pallet_mapping'[o] = order_pallet_mapping[o]]_vars
    /\ [](phase = "palletize" =>
            /\ \A k \in 1..Len(pallets) : pallets[k].id = k
            /\ \A i \in 1..Len(sorted_orders) : \A j \in i..Len(sorted_orders) :
                  compute_order_total_area(orders[sorted_orders[i]])
                     >= compute_order_total_area(orders[sorted_orders[j]])
            /\ {sorted_orders[i] : i \in 1..Len(sorted_orders)} = DOMAIN orders
            /\ Len(sorted_orders) = Len(orders))

\* an order opened pallet 2 after its trial on pallet 1 failed, and the next
\* order went to pallet 1 although pallet 2 takes it as well
C25_Witness ==
    /\ phase = "palletize"
    /\ Len(pallets) = 2
    /\ next_order > 2
    /\ next_order <= Len(sorted_orders) + 1
    /\ order_pallet_mapping[sorted_orders[next_order - 2]] = 2
    /\ sorted_orders[next_order - 1] \in trial_accepted
    /\ order_pallet_mapping[sorted_orders[next_order - 1]] = 1
    /\ Trial(pallets, 2, OrderItems(sorted_orders[next_order - 1],
                                    orders[sorted_orders[next_order - 1]])).ok

\* the trial of the current order reaches pallets[k]: no earlier pallet took it
TrialReaches(k) == \A j \in 1..(k - 1) : ~ TrialFits(j)

PlacesOf(routes, tid) ==
    { rp \in (1..Len(routes)) \X (1..Len(cw.items)) :
         rp[2] <= Len(routes[rp[1]]) /\ routes[rp[1]][rp[2]] = tid }

\* every occurrence is in exactly one route, once, and no route is empty
PartitionsOccurrences(routes) ==
    /\ \A r \in 1..Len(routes) :
          /\ Len(routes[r]) >= 1
          /\ \A p \in 1..Len(routes[r]) : routes[r][p] \in 1..Len(cw.items)
    /\ \A tid \in 1..Len(cw.items) : Cardinality(PlacesOf(routes, tid)) = 1

\* a is in the same route as b, before it
BeforeInRoute(routes, a, b) ==
    \E r \in 1..Len(routes) : \E p, q \in 1..Len(routes[r]) :
        p < q /\ routes[r][p] = a /\ routes[r][q] = b

\* a is in the same route as b, right before it
NextInRoute(routes, a, b) ==
    \E r \in 1..Len(routes) : \E p \in 1..(Len(routes[r]) - 1) :
        routes[r][p] = a /\ routes[r][p + 1] = b

\* the step joins the route ending in tail and the route starting with head,
\* in this order, and leaves the other routes
JoinsAt(routes, joined, tail, head) ==
    \E rt, rh \in 1..Len(routes) :
        /\ rt # rh
        /\ routes[rt][Len(routes[rt])] = tail
        /\ routes[rh][1] = head
        /\ Len(joined) = Len(routes) - 1
        /\ joined[Len(joined)] = routes[rt] \o routes[rh]
        /\ SubSeq(joined, 1, Len(joined) - 1) = Without(routes, {rt, rh})

\* C27: during the merge loop the routes partition the occurrences; a step
\* changes the routes only by joining, for its pair (i, j), the route that
\* ends in one of the two and the distinct route that starts with the other,
\* in this order; occurrences of one route keep their order and stay
\* neighbours in every later list of routes and in the final route
C27_MergesJoinTailToHead ==
    /\ [][(phase = "merge" /\ cw.pc = "merging") =>
            /\ cw'.routes # cw.routes =>
                  /\ cw.k <= Len(cw.sorted_savings)
                  /\ \/ JoinsAt(cw.routes, cw'.routes,
                                cw.sorted_savings[cw.k][1], cw.sorted_savings[cw.k][2])
                     \/ JoinsAt(cw.routes, cw'.routes,
                                cw.sorted_savings[cw.k][2], cw.sorted_savings[cw.k][1])
            /\ \A a, b \in 1..Len(cw.items) :
                  /\ BeforeInRoute(cw.routes, a, b) => BeforeInRoute(cw'.routes, a, b)
                  /\ NextInRoute(cw.routes, a, b) => NextInRoute(cw'.routes, a, b)]_vars
    /\ [](phase = "merge" =>
            /\ PartitionsOccurrences(cw.routes)
            /\ cw.pc = "done" =>
                  /\ Len(cw.route) = Len(cw.items) + 2
                  /\ Len(cw.tids) = Len(cw.items)
                  /\ \A q \in 1..Len(cw.tids) : cw.route[q + 1] = cw.items[cw.tids[q]]
                  /\ \A a, b \in 1..Len(cw.items) :
                        /\ BeforeInRoute(cw.routes, a, b) => BeforeInRoute(<< cw.tids >>, a, b)
                        /\ NextInRoute(cw.routes, a, b) => NextInRoute(<< cw.tids >>, a, b))

\* two routes of two occurrences each were joined, the pair being (j, i) with
\* j at the end of its route and i at the start of the other
C27_Witness ==
    /\ phase = "merge"
    /\ cw.pc = "merging"
    /\ Len(cw.items) = 4
    /\ Len(cw.routes) = 1
    /\ cw.k > 1
    /\ \E r \in {cw.routes[1]} :
          /\ cw.sorted_savings[cw.k - 1] = << r[3], r[2] >>

\* C28: on every non-empty input and distance data exactly one route is left
\* when the loop is over, so the final route is one merged path between the
\* two depots
C28_OneRouteRemains ==
    (phase = "merge" /\ (cw.pc = "done" \/ cw.k > Len(cw.sorted_savings))) =>
            /\ Len(cw.routes) = 1
            /\ cw.pc = "done" =>
                  cw.route = << Depot >> \o [q \in 1..Len(cw.routes[1]) |->
                                                cw.items[cw.routes[1][q]]] \o << Depot >>

\* the loop ended on four occurrences whose savings are all negative, the
\* last merges being made by pairs whose first member started its route
C28_Witness ==
    /\ phase = "merge"
    /\ cw.pc = "done"
    /\ Len(cw.items) = 4
    /\ \A r \in 1..Len(cw.savings) : cw.savings[r] < 0
    /\ \E r, q \in 1..Len(cw.savings) : cw.savings[r] # cw.savings[q]
    /\ cw.tids # << 1, 2, 3, 4 >>
    /\ cw.tids[1] > cw.tids[2]

\* C29: on a pallet filled from empty by place_item and try_place_item every
\* region of the EMS list reaches the far corner of the pallet
C29_RegionsReachFarCorner ==
    phase = "pallet" =>
        \A k \in 1..Len(pallet.ems_list) :
            /\ pallet.ems_list[k].x + pallet.ems_list[k].length = pallet.length
            /\ pallet.ems_list[k].y + pallet.ems_list[k].width = pallet.width

\* three items are placed and three regions with different origins are left,
\* one of them with its origin off both low edges of the pallet
C29_Witness ==
    /\ phase = "pallet"
    /\ Len(pallet.items) >= 3
    /\ Len(pallet.ems_list) >= 3
    /\ \A j, k \in 1..Len(pallet.ems_list) :
          j # k => <<pallet.ems_list[j].x, pallet.ems_list[j].y>>
                      # <<pallet.ems_list[k].x, pallet.ems_list[k].y>>
    /\ \E k \in 1..Len(pallet.ems_list) : pallet.ems_list[k].x > 0 /\ pallet.ems_list[k].y > 0

\* C30: a run whose time limit is never reached returns, and a plateau after
\* which the run goes on has lowered the best value
C30_UnlimitedRunReturns ==
    /\ [][(phase = "anneal" /\ sa.pc = "plateau" /\ sa'.pc = "level") =>
             /\ sa.best.value < sa.level_best
             /\ sa'.best = sa.best]_vars
    /\ <>(phase = "anneal" /\ sa.pc = "returned")

\* a run without time limit returned after a plateau that lowered the best
\* value and a second plateau that did not
C30_Witness ==
    /\ phase = "anneal"
    /\ sa.pc = "returned"
    /\ sa.stopped_reason = "no_improvement_in_plateau"
    /\ sa.level >= 2
    /\ sa.plateau_len >= 2
    /\ sa.best.value < sa.initial.value
    /\ sa.current.value > sa.best.value

\* the test of the clock at which a returned run stopped
StopPoint(run) == << run.level, run.k >>

BothReturned == phase = "twin" /\ sa.pc = "returned" /\ twin.pc = "returned"

====
